---- MODULE Spec2Model ----
(***************************************************************************)
(* Model of the consolidation pipeline of elk/scraper/transformer.py:      *)
(* Transformer.transform_documents and the helpers it calls, and of        *)
(* normalize_boundary of elk/api/hazards/geometry.py.                      *)
(*                                                                         *)
(* Representation of Python / JSON values:                                 *)
(*   None            <<"null">>                                            *)
(*   a missing key   <<"absent">>                                          *)
(*   a str           <<"str", s>>   with s a sequence of character codes   *)
(*   a number        <<"num", n>>                                          *)
(*   a list          <<"list", s>>  with s a sequence of values            *)
(*   a point dict    <<"point", latitude, longitude>>                      *)
(*   a GeoJSON dict  <<"geo", type, coordinates>>                          *)
(* A dict with a fixed set of keys (a document, a fragment, an aggregated  *)
(* entity, an emitted object) is a record; a record's obj field tells      *)
(* whether the JSON value was an object at all.                            *)
(***************************************************************************)
EXTENDS Integers, Sequences, FiniteSets, TLC

VARIABLES
    docs,         \* the documents handed to transform_documents
    hasApi,       \* Transformer.api_client is configured
    hasMaps,      \* GoogleMapsHydrator.client is configured
    pc,           \* position inside transform_documents
    idx,          \* index of the next document / entity of the current loop
    locations,    \* Transformer.locations, in insertion order
    hazards,      \* Transformer.hazards, in insertion order
    locCache,     \* ElkApiClient._location_cache
    hazCache,     \* ElkApiClient._hazard_cache
    trace,        \* the calls made so far, in order
    output,       \* the value returned by transform_documents
    raw_boundary, \* the argument of a call of normalize_boundary on its own
    polygons,     \* what geometry.normalize_boundary made of it
    recorded,     \* what transformer.normalize_boundary made of it
    args,         \* the arguments of a call of one of the other functions on its own
    returned,     \* what that call returned or raised
    files         \* the files the downloader has written under output_dir

vars ==
    <<docs, hasApi, hasMaps, pc, idx, locations, hazards, locCache, hazCache, trace, output,
      raw_boundary, polygons, recorded, args, returned, files>>

-----------------------------------------------------------------------------
(* Values *)

None == <<"null">>

Absent == <<"absent">>

JStr(s) == <<"str", s>>

JNum(n) == <<"num", n>>

JList(s) == <<"list", s>>

JPoint(lat, lng) == <<"point", lat, lng>>

JGeo(t, coords) == <<"geo", t, coords>>

IsNone(v) == v[1] = "null"

IsStr(v) == v[1] = "str"

IsNum(v) == v[1] = "num"

IsList(v) == v[1] = "list"

\* dict.get(key): a missing key reads as None
Get(v) == IF v[1] = "absent" THEN None ELSE v

\* Python truthiness of a value
Truthy(v) ==
    CASE v[1] = "str" -> v[2] # <<>>
      [] v[1] = "num" -> v[2] # 0
      [] v[1] = "list" -> v[2] # <<>>
      [] v[1] = "point" -> TRUE
      [] v[1] = "geo" -> TRUE
      [] OTHER -> FALSE

\* Python's `a or b`
PyOr(a, b) == IF Truthy(a) THEN a ELSE b

-----------------------------------------------------------------------------
(* Strings: sequences of character codes *)

IsSpace(c) == c \in {9, 10, 11, 12, 13, 32}

LowerChar(c) == IF c >= 65 /\ c <= 90 THEN c + 32 ELSE c

RECURSIVE LStrip(_)
LStrip(s) == IF s # <<>> /\ IsSpace(Head(s)) THEN LStrip(Tail(s)) ELSE s

RECURSIVE RStrip(_)
RStrip(s) ==
    IF s # <<>> /\ IsSpace(s[Len(s)]) THEN RStrip(SubSeq(s, 1, Len(s) - 1)) ELSE s

\* str.strip()
Strip(s) == RStrip(LStrip(s))

\* str.lower()
LowerStr(s) == [i \in 1..Len(s) |-> LowerChar(s[i])]

\* Python's < on str: by code point, a proper prefix first
RECURSIVE StrLess(_, _)
StrLess(a, b) ==
    IF b = <<>> THEN FALSE
    ELSE IF a = <<>> THEN TRUE
    ELSE IF Head(a) # Head(b) THEN Head(a) < Head(b)
    ELSE StrLess(Tail(a), Tail(b))

MinStr(S) == CHOOSE a \in S : \A b \in S : a = b \/ StrLess(a, b)

\* sorted(S) for a set of str
RECURSIVE SortStrings(_)
SortStrings(S) ==
    IF S = {} THEN <<>>
    ELSE LET m == MinStr(S) IN <<m>> \o SortStrings(S \ {m})

IsDigit(c) == c >= 48 /\ c <= 57

RECURSIVE DigitsValue(_)
DigitsValue(s) ==
    IF s = <<>> THEN 0 ELSE 10 * DigitsValue(SubSeq(s, 1, Len(s) - 1)) + (s[Len(s)] - 48)

\* str(n) for n >= 0
RECURSIVE Digits(_)
Digits(n) == IF n < 10 THEN <<48 + n>> ELSE Digits(n \div 10) \o <<48 + (n % 10)>>

\* normalize_name without the lower-casing
normalize_name_keeps_case(s) == Strip(s)

normalize_name(s) == LowerStr(Strip(s))

\* float(value) succeeds on a number and on a str of digits (surrounding
\* whitespace allowed); every other value of the model gives None
to_float(value) ==
    CASE IsNum(value) -> value
      [] IsStr(value) ->
            LET t == Strip(value[2]) IN
            IF t # <<>> /\ \A i \in 1..Len(t) : IsDigit(t[i])
            THEN JNum(DigitsValue(t)) ELSE None
      [] OTHER -> None

-----------------------------------------------------------------------------
(* Module constants of transformer.py *)

STR_LOW == <<108, 111, 119>>

STR_MEDIUM == <<109, 101, 100, 105, 117, 109>>

STR_HIGH == <<104, 105, 103, 104>>

STR_ANIMAL == <<97, 110, 105, 109, 97, 108>>

STR_EVENT == <<101, 118, 101, 110, 116>>

STR_WEATHER == <<119, 101, 97, 116, 104, 101, 114>>

STR_DISEASE == <<100, 105, 115, 101, 97, 115, 101>>

HAZARD_SEVERITIES == {STR_LOW, STR_MEDIUM, STR_HIGH}

HAZARD_TYPES == {STR_ANIMAL, STR_EVENT, STR_WEATHER, STR_DISEASE}

STR_NATIONAL_PARK == <<78, 97, 116, 105, 111, 110, 97, 108, 32, 80, 97, 114, 107>>

STR_REGION == <<82, 101, 103, 105, 111, 110>>

\* LOCATION_TYPES.get(k): the canonical spelling in a one-element sequence,
\* or the empty sequence when k is no key of the table
LOCATION_TYPES(k) ==
    IF k = LowerStr(STR_NATIONAL_PARK) THEN <<STR_NATIONAL_PARK>>
    ELSE IF k = LowerStr(STR_REGION) THEN <<STR_REGION>>
    ELSE <<>>

-----------------------------------------------------------------------------
(* normalize_boundary and the field normalizers *)

\* normalize_point: the point in a one-element sequence, or <<>> for None
normalize_point(point) ==
    LET pair ==
            CASE point[1] = "point" ->
                    <<to_float(PyOr(Get(point[2]), None)), to_float(PyOr(Get(point[3]), None))>>
              [] point[1] = "list" /\ Len(point[2]) >= 2 ->
                    <<to_float(point[2][1]), to_float(point[2][2])>>
              [] point[1] = "str" /\ Len(point[2]) >= 2 ->
                    <<to_float(JStr(<<point[2][1]>>)), to_float(JStr(<<point[2][2]>>))>>
              [] OTHER -> <<None, None>>
    IN  IF IsNone(pair[1]) \/ IsNone(pair[2]) THEN <<>>
        ELSE <<[latitude |-> pair[1][2], longitude |-> pair[2][2]]>>

RECURSIVE CollectPoints(_)
CollectPoints(s) ==
    IF s = <<>> THEN <<>> ELSE normalize_point(Head(s)) \o CollectPoints(Tail(s))

\* the loop over the elements of a list boundary (lines 65-74)
RECURSIVE CollectElements(_)
CollectElements(s) ==
    IF s = <<>> THEN <<>>
    ELSE (IF IsList(Head(s)) THEN CollectPoints(Head(s)[2]) ELSE normalize_point(Head(s)))
         \o CollectElements(Tail(s))

\* lines 82-85 without the closing of the ring
ClosePolygon_left_open(points) == IF Len(points) < 3 THEN <<>> ELSE points

ClosePolygon(points) ==
    IF Len(points) < 3 THEN <<>>
    ELSE IF points[1] # points[Len(points)] THEN Append(points, points[1])
    ELSE points

\* coordinates[0][0] of a MultiPolygon raises unless coordinates[0] is a
\* non-empty list or str
MultiPolygonRaises(coordinates) ==
    LET first == coordinates[2][1] IN
    ~((IsList(first) \/ IsStr(first)) /\ first[2] # <<>>)

RECURSIVE BoundaryRaises(_)
BoundaryRaises(raw) ==
    /\ raw[1] = "geo"
    /\ IsList(raw[3])
    /\ raw[3][2] # <<>>
    /\ \/ raw[2] = "Polygon" /\ BoundaryRaises(raw[3][2][1])
       \/ /\ raw[2] = "MultiPolygon"
          /\ \/ MultiPolygonRaises(raw[3])
             \/ /\ IsList(raw[3][2][1])
                /\ BoundaryRaises(raw[3][2][1][2][1])

RECURSIVE normalize_boundary(_)
normalize_boundary(raw) ==
    IF ~Truthy(raw) THEN <<>>
    ELSE IF IsList(raw) THEN ClosePolygon(CollectElements(raw[2]))
    ELSE IF raw[1] = "geo" /\ IsList(raw[3]) /\ raw[3][2] # <<>> /\ raw[2] = "Polygon"
         THEN normalize_boundary(raw[3][2][1])
    ELSE IF raw[1] = "geo" /\ IsList(raw[3]) /\ raw[3][2] # <<>> /\ raw[2] = "MultiPolygon"
         THEN (IF IsList(raw[3][2][1])
               THEN normalize_boundary(raw[3][2][1][2][1])
               ELSE normalize_boundary(JStr(<<raw[3][2][1][2][1]>>)))
    ELSE <<>>

\* value.strip() raises on a truthy value that is no str
StripRaises(value) == Truthy(value) /\ ~IsStr(value)

normalize_location_type(value) ==
    IF ~Truthy(value) THEN None
    ELSE LET canonical == LOCATION_TYPES(LowerStr(Strip(value[2]))) IN
         IF canonical # <<>> THEN JStr(canonical[1]) ELSE value

normalize_hazard_choice(value, allowed) ==
    IF ~Truthy(value) THEN None
    ELSE LET candidate == LowerStr(Strip(value[2])) IN
         IF candidate \in allowed THEN JStr(candidate) ELSE None

-----------------------------------------------------------------------------
(* The aggregated entities and their merge methods *)

\* position of the entry with this key in an insertion-ordered dict, 0 if none
IndexOfKey(entries, key) ==
    IF \E i \in 1..Len(entries) : entries[i].key = key
    THEN CHOOSE i \in 1..Len(entries) : entries[i].key = key
    ELSE 0

KeysOf(entries) == {entries[i].key : i \in 1..Len(entries)}

\* dict.setdefault(key, fresh)
SetDefault(entries, fresh) ==
    IF IndexOfKey(entries, fresh.key) # 0 THEN entries ELSE Append(entries, fresh)

\* LocationPresentationAggregate(hazard_key=...)
NewPresentation(hazard_key) ==
    [key |-> hazard_key, boundary |-> <<>>, notes |-> {}]

\* AggregatedLocation(name=...), stored under its dict key
NewLocation(key, name) ==
    [key |-> key, name |-> name, type |-> None, latitude |-> None, longitude |-> None,
     description |-> None, image |-> None, google_maps_id |-> None,
     boundary |-> <<>>, id |-> None, presentations |-> <<>>]

\* AggregatedHazard(name=...), stored under its dict key
NewHazard(key, name) ==
    [key |-> key, name |-> name, severity |-> None, type |-> None,
     description |-> None, id |-> None]

\* FillText without the `not self.f` test
FillText_overwrites(current, value) ==
    IF IsStr(value) /\ Strip(value[2]) # <<>>
    THEN JStr(Strip(value[2])) ELSE current

\* the `isinstance(x, str) and x.strip() and not self.f` assignments
FillText(current, value) ==
    IF IsStr(value) /\ Strip(value[2]) # <<>> /\ ~Truthy(current)
    THEN JStr(Strip(value[2])) ELSE current

\* FillBoundary without the `not self.boundary` test
FillBoundary_last_wins(current, raw) ==
    LET boundary == normalize_boundary(raw) IN
    IF boundary # <<>> THEN boundary ELSE current

FillBoundary(current, raw) ==
    LET boundary == normalize_boundary(raw) IN
    IF boundary # <<>> /\ current = <<>> THEN boundary ELSE current

\* LocationPresentationAggregate.merge assigning the note instead of adding it
LocationPresentationAggregate_merge_overwrites(self, payload) ==
    LET note == PyOr(Get(payload.notes), Get(payload.description)) IN
    [self EXCEPT
        !.boundary = FillBoundary(self.boundary, Get(payload.boundary)),
        !.notes = IF IsStr(note) /\ Strip(note[2]) # <<>>
                  THEN {Strip(note[2])} ELSE self.notes]

LocationPresentationAggregate_merge(self, payload) ==
    LET note == PyOr(Get(payload.notes), Get(payload.description)) IN
    [self EXCEPT
        !.boundary = FillBoundary(self.boundary, Get(payload.boundary)),
        !.notes = IF IsStr(note) /\ Strip(note[2]) # <<>>
                  THEN self.notes \cup {Strip(note[2])} ELSE self.notes]

AggregatedLocation_merge(self, payload) ==
    LET google_maps_id ==
            IF ~Truthy(Get(payload.google_maps_id))
            THEN Get(payload.googleMapsId) ELSE Get(payload.google_maps_id)
    IN
    [self EXCEPT
        !.type = IF Truthy(self.type) THEN self.type
                 ELSE normalize_location_type(Get(payload.type)),
        !.latitude = IF ~IsNone(self.latitude) THEN self.latitude
                     ELSE to_float(Get(payload.latitude)),
        !.longitude = IF ~IsNone(self.longitude) THEN self.longitude
                      ELSE to_float(Get(payload.longitude)),
        !.description = FillText(self.description, Get(payload.description)),
        !.image = FillText(self.image, Get(payload.image)),
        !.google_maps_id = FillText(self.google_maps_id, google_maps_id),
        !.boundary = FillBoundary(self.boundary, Get(payload.boundary))]

\* merge raises (AttributeError / TypeError) before it has assigned anything
AggregatedLocation_merge_raises(self, payload) ==
    \/ ~Truthy(self.type) /\ StripRaises(Get(payload.type))
    \/ BoundaryRaises(Get(payload.boundary))

AggregatedLocation_merge_presentation(self, hazard_key, payload) ==
    LET ps == SetDefault(self.presentations, NewPresentation(hazard_key))
        i == IndexOfKey(ps, hazard_key)
    IN  [self EXCEPT !.presentations =
            [ps EXCEPT ![i] = LocationPresentationAggregate_merge(ps[i], payload)]]

\* merge_presentation raises inside normalize_boundary, after its setdefault
AggregatedLocation_merge_presentation_raised(self, hazard_key) ==
    [self EXCEPT !.presentations =
        SetDefault(self.presentations, NewPresentation(hazard_key))]

\* AggregatedHazard.merge with the operands of both `or` swapped
AggregatedHazard_merge_last_wins(self, payload) ==
    LET severity == normalize_hazard_choice(Get(payload.severity), HAZARD_SEVERITIES)
        hazard_type == normalize_hazard_choice(Get(payload.type), HAZARD_TYPES)
    IN
    [self EXCEPT
        !.severity = PyOr(severity, self.severity),
        !.type = PyOr(hazard_type, self.type),
        !.description = FillText(self.description, Get(payload.description))]

AggregatedHazard_merge(self, payload) ==
    LET severity == normalize_hazard_choice(Get(payload.severity), HAZARD_SEVERITIES)
        hazard_type == normalize_hazard_choice(Get(payload.type), HAZARD_TYPES)
    IN
    [self EXCEPT
        !.severity = PyOr(self.severity, severity),
        !.type = PyOr(self.type, hazard_type),
        !.description = FillText(self.description, Get(payload.description))]

AggregatedHazard_merge_raises(payload) ==
    StripRaises(Get(payload.severity)) \/ StripRaises(Get(payload.type))

-----------------------------------------------------------------------------
(* Transformer._ingest_document.  The state of a run is the pair of maps    *)
(* and whether an exception has left the method.                            *)

\* one iteration of the loop over document["locations"] (lines 427-434)
IngestLocationEntry(st, payload) ==
    IF ~payload.obj THEN st
    ELSE LET name == IF payload.name[1] = "absent" THEN JStr(<<>>) ELSE payload.name IN
         IF ~IsStr(name) THEN [st EXCEPT !.raised = TRUE]
         ELSE LET key == normalize_name(name[2]) IN
              IF key = <<>> THEN st
              ELSE LET locs == SetDefault(st.locations, NewLocation(key, Strip(name[2])))
                       i == IndexOfKey(locs, key)
                   IN  IF AggregatedLocation_merge_raises(locs[i], payload)
                       THEN [st EXCEPT !.locations = locs, !.raised = TRUE]
                       ELSE [st EXCEPT !.locations =
                                [locs EXCEPT ![i] = AggregatedLocation_merge(locs[i], payload)]]

\* one iteration of the loop over a hazard's presentations (lines 447-458)
IngestPresentationEntry(st, hazard_key, payload) ==
    IF ~payload.obj THEN st
    ELSE LET location_name == Get(payload.location) IN
         IF ~IsStr(location_name) \/ Strip(location_name[2]) = <<>> THEN st
         ELSE LET key == normalize_name(location_name[2])
                  locs == SetDefault(st.locations, NewLocation(key, Strip(location_name[2])))
                  i == IndexOfKey(locs, key)
              IN  IF BoundaryRaises(Get(payload.boundary))
                  THEN [st EXCEPT
                          !.locations = [locs EXCEPT ![i] =
                              AggregatedLocation_merge_presentation_raised(locs[i], hazard_key)],
                          !.raised = TRUE]
                  ELSE [st EXCEPT !.locations = [locs EXCEPT ![i] =
                          AggregatedLocation_merge_presentation(locs[i], hazard_key, payload)]]

RECURSIVE IngestPresentations(_, _, _)
IngestPresentations(st, hazard_key, entries) ==
    IF entries = <<>> \/ st.raised THEN st
    ELSE IngestPresentations(IngestPresentationEntry(st, hazard_key, Head(entries)),
                             hazard_key, Tail(entries))

\* one iteration of the loop over document["hazards"] (lines 436-458)
IngestHazardEntry(st, payload) ==
    IF ~payload.obj THEN st
    ELSE LET name == Get(payload.name) IN
         IF ~IsStr(name) \/ Strip(name[2]) = <<>> THEN st
         ELSE LET hazard_key == normalize_name(name[2])
                  hz == SetDefault(st.hazards, NewHazard(hazard_key, Strip(name[2])))
                  i == IndexOfKey(hz, hazard_key)
              IN  IF AggregatedHazard_merge_raises(payload)
                  THEN [st EXCEPT !.hazards = hz, !.raised = TRUE]
                  ELSE IngestPresentations(
                          [st EXCEPT !.hazards =
                              [hz EXCEPT ![i] = AggregatedHazard_merge(hz[i], payload)]],
                          hazard_key, payload.presentations)

RECURSIVE IngestLocations(_, _)
IngestLocations(st, entries) ==
    IF entries = <<>> \/ st.raised THEN st
    ELSE IngestLocations(IngestLocationEntry(st, Head(entries)), Tail(entries))

RECURSIVE IngestHazards(_, _)
IngestHazards(st, entries) ==
    IF entries = <<>> \/ st.raised THEN st
    ELSE IngestHazards(IngestHazardEntry(st, Head(entries)), Tail(entries))

_ingest_document(st, document) ==
    IngestHazards(IngestLocations(st, document.locations), document.hazards)

\* the loop of transform_documents over the documents (lines 417-419)
RECURSIVE IngestAll(_, _)
IngestAll(st, documents) ==
    IF documents = <<>> \/ st.raised THEN st
    ELSE IngestAll(IF Head(documents).obj THEN _ingest_document(st, Head(documents)) ELSE st,
                   Tail(documents))

EmptyMaps == [locations |-> <<>>, hazards |-> <<>>, raised |-> FALSE]

-----------------------------------------------------------------------------
(* Transformer._assign_new_ids *)

NEW_LOCATION_PREFIX == <<110, 101, 119, 45, 108, 111, 99, 97, 116, 105, 111, 110, 45>>

NEW_HAZARD_PREFIX == <<110, 101, 119, 45, 104, 97, 122, 97, 114, 100, 45>>

\* the keys of a map in the order of their insertion
AssignOrder_as_inserted(entries) == [i \in 1..Len(entries) |-> entries[i].key]

\* the order in which _assign_new_ids visits the keys of a map
AssignOrder(entries) == SortStrings(KeysOf(entries))

\* the loop `for key in sorted(...)` with its counter
RECURSIVE AssignLoop(_, _, _, _)
AssignLoop(entries, keys, next_id, prefix) ==
    IF keys = <<>> THEN entries
    ELSE LET i == IndexOfKey(entries, Head(keys)) IN
         IF IsNone(entries[i].id)
         THEN AssignLoop([entries EXCEPT ![i].id = JStr(prefix \o Digits(next_id))],
                         Tail(keys), next_id + 1, prefix)
         ELSE AssignLoop(entries, Tail(keys), next_id, prefix)

\* _assign_new_ids that assigns nothing
AssignIds_none(entries, prefix) == entries

AssignIds(entries, prefix) == AssignLoop(entries, AssignOrder(entries), 1, prefix)

-----------------------------------------------------------------------------
(* to_dict and Transformer._build_output *)

\* the items in the order given, not sorted
StableSort_as_given(pairs) == [i \in 1..Len(pairs) |-> pairs[i][2]]

\* sorted(items, key=...): stable, on a sequence of <<sort key, item>> pairs
RECURSIVE StableSort(_)
StableSort(pairs) ==
    IF pairs = <<>> THEN <<>>
    ELSE LET minimal(i) == \A j \in 1..Len(pairs) : ~StrLess(pairs[j][1], pairs[i][1])
             m == CHOOSE i \in 1..Len(pairs) :
                      minimal(i) /\ \A j \in 1..(i - 1) : ~minimal(j)
         IN  <<pairs[m][2]>>
             \o StableSort([k \in 1..(Len(pairs) - 1) |-> IF k < m THEN pairs[k] ELSE pairs[k + 1]])

\* a dict entry that is only present when the value is truthy
IfTruthy(v) == IF Truthy(v) THEN v ELSE Absent

IfNotNone(v) == IF IsNone(v) THEN Absent ELSE v

IfBoundary(boundary) == IF boundary # <<>> THEN JList(boundary) ELSE Absent

LocationPresentationAggregate_to_dict(self, hazard) ==
    LET notes == SortStrings(self.notes) IN
    [hazard_id |-> hazard.id,
     hazard_name |-> hazard.name,
     boundary |-> IfBoundary(self.boundary),
     notes |-> IF self.notes = {} THEN Absent
               ELSE IF Len(notes) > 1 THEN JList([i \in 1..Len(notes) |-> JStr(notes[i])])
               ELSE JStr(notes[1]),
     hazard_severity |-> IfTruthy(hazard.severity),
     hazard_type |-> IfTruthy(hazard.type)]

\* the presentations of a location whose hazard is known and has an id,
\* in insertion order (lines 206-211)
RECURSIVE PresentationDicts(_, _)
PresentationDicts(ps, hzs) ==
    IF ps = <<>> THEN <<>>
    ELSE LET i == IndexOfKey(hzs, Head(ps).key) IN
         (IF i = 0 \/ IsNone(hzs[i].id) THEN <<>>
          ELSE <<LocationPresentationAggregate_to_dict(Head(ps), hzs[i])>>)
         \o PresentationDicts(Tail(ps), hzs)

AggregatedLocation_to_dict(self, hzs) ==
    LET ps == PresentationDicts(self.presentations, hzs) IN
    [id |-> self.id,
     name |-> self.name,
     type |-> IfTruthy(self.type),
     latitude |-> IfNotNone(self.latitude),
     longitude |-> IfNotNone(self.longitude),
     description |-> IfTruthy(self.description),
     image |-> IfTruthy(self.image),
     google_maps_id |-> IfTruthy(self.google_maps_id),
     boundary |-> IfBoundary(self.boundary),
     presentations |-> StableSort([i \in 1..Len(ps) |-> <<ps[i].hazard_name, ps[i]>>])]

AggregatedHazard_to_dict(self) ==
    [id |-> self.id,
     name |-> self.name,
     severity |-> IfTruthy(self.severity),
     type |-> IfTruthy(self.type),
     description |-> IfTruthy(self.description)]

_build_output(locs, hzs) ==
    LET sortedLocs == StableSort([i \in 1..Len(locs) |-> <<LowerStr(locs[i].name), locs[i]>>])
        sortedHzs == StableSort([i \in 1..Len(hzs) |-> <<LowerStr(hzs[i].name), hzs[i]>>])
    IN  [locations |-> [i \in 1..Len(sortedLocs) |-> AggregatedLocation_to_dict(sortedLocs[i], hzs)],
         hazards |-> [i \in 1..Len(sortedHzs) |-> AggregatedHazard_to_dict(sortedHzs[i])]]

-----------------------------------------------------------------------------
(* score_name.  A score is a fraction <<numerator, denominator>>.          *)

FracLess(x, y) == x[1] * y[2] < y[1] * x[2]

FracMax(x, y) == IF FracLess(x, y) THEN y ELSE x

\* a[i..i+k-1] = b[j..j+k-1]
BlockAt(a, b, i, j, k) ==
    /\ i + k - 1 <= Len(a)
    /\ j + k - 1 <= Len(b)
    /\ \A d \in 0..(k - 1) : a[i + d] = b[j + d]

\* find_longest_match prefers the longer block, then the earlier start in a,
\* then the earlier start in b
PreferredBlock(m, o) ==
    \/ m[3] > o[3]
    \/ m[3] = o[3] /\ m[1] < o[1]
    \/ m[3] = o[3] /\ m[1] = o[1] /\ m[2] <= o[2]

BestBlock(blocks) ==
    IF blocks = {} THEN <<0, 0, 0>>
    ELSE CHOOSE m \in blocks : \A o \in blocks : PreferredBlock(m, o)

\* SequenceMatcher.find_longest_match over the whole of a and b: <<i, j, k>>
LongestMatch(a, b) ==
    BestBlock({m \in (1..Len(a)) \X (1..Len(b)) \X (1..Len(a)) :
                  BlockAt(a, b, m[1], m[2], m[3])})

\* the number of matched characters over SequenceMatcher.get_matching_blocks:
\* the longest block, then the same to its left and to its right
RECURSIVE MatchedChars(_, _)
RECURSIVE MatchedAround(_, _, _)
MatchedAround(a, b, m) ==
    IF m[3] = 0 THEN 0
    ELSE m[3]
         + MatchedChars(SubSeq(a, 1, m[1] - 1), SubSeq(b, 1, m[2] - 1))
         + MatchedChars(SubSeq(a, m[1] + m[3], Len(a)), SubSeq(b, m[2] + m[3], Len(b)))

MatchedChars(a, b) == MatchedAround(a, b, LongestMatch(a, b))

\* SequenceMatcher(None, a, b).ratio()
Ratio(a, b) ==
    IF Len(a) + Len(b) = 0 THEN <<1, 1>>
    ELSE <<2 * MatchedChars(a, b), Len(a) + Len(b)>>

StartsWith(s, prefix) ==
    Len(prefix) <= Len(s) /\ SubSeq(s, 1, Len(prefix)) = prefix

Contains(s, part) ==
    \E i \in 1..(Len(s) + 1) : BlockAt(s, part, i, 1, Len(part))

\* lines 107-111: the boosts for a prefix and for a substring
Boost(candidate_lower, query_lower, ratio) ==
    IF StartsWith(candidate_lower, query_lower) THEN FracMax(ratio, <<95, 100>>)
    ELSE IF Contains(candidate_lower, query_lower) THEN FracMax(ratio, <<85, 100>>)
    ELSE ratio

ScoreLower(candidate_lower, query_lower) ==
    Boost(candidate_lower, query_lower, Ratio(candidate_lower, query_lower))

score_name(candidate, query) == ScoreLower(LowerStr(candidate), LowerStr(query))

FUZZY_MATCH_THRESHOLD == <<6, 10>>

-----------------------------------------------------------------------------
(* ElkApiClient *)

\* one iteration of the loop of _choose_best_match on <<best_score, best>>,
\* best a sequence of at most one candidate
BestStep_latest(acc, candidate, score) ==
    IF ~FracLess(score, acc[1]) THEN <<score, <<candidate>>>> ELSE acc

BestStep(acc, candidate, score) ==
    IF FracLess(acc[1], score) THEN <<score, <<candidate>>>> ELSE acc

RECURSIVE BestLoop(_, _, _)
BestLoop(name, candidates, acc) ==
    IF candidates = <<>> THEN acc
    ELSE BestLoop(name, Tail(candidates),
                  IF ~IsStr(Get(Head(candidates).name)) THEN acc
                  ELSE BestStep(acc, Head(candidates),
                                score_name(Head(candidates).name[2], name)))

AtLeastThreshold(found) ==
    IF ~FracLess(found[1], FUZZY_MATCH_THRESHOLD) THEN found[2] ELSE <<>>

\* the match in a one-element sequence, or <<>> for None
_choose_best_match(name, candidates) ==
    AtLeastThreshold(BestLoop(name, candidates, <<<<0, 1>>, <<>>>>))

\* the body of find_location / find_hazard after a cache miss, on the outcome
\* of the HTTP request (<<"fail">> for any exception, <<"data", candidates>>
\* for a JSON list): the match
Fetch(name, response) ==
    IF response[1] = "data" THEN _choose_best_match(name, response[2]) ELSE <<>>

\* a lookup that returns its result and stores nothing
Cached_forgotten(cache, key, match) == <<cache, match>>

\* self._location_cache[key] = match; return match
Cached(cache, key, match) == <<Append(cache, [key |-> key, match |-> match]), match>>

\* find_location / find_hazard: <<cache', match>>
CacheLookup(cache, name, response) ==
    IF IndexOfKey(cache, normalize_name(name)) # 0
    THEN <<cache, cache[IndexOfKey(cache, normalize_name(name))].match>>
    ELSE Cached(cache, normalize_name(name), Fetch(name, response))

\* whether the lookup issues an HTTP request
CacheMiss(cache, name) == IndexOfKey(cache, normalize_name(name)) = 0

\* str(payload["id"]) of a catalog id: a number or a str
PyStr(v) == IF IsNum(v) THEN JStr(Digits(v[2])) ELSE v

\* lines 183-184 / 235-236
TakeId(merged, payload) ==
    IF ~IsNone(Get(payload.id)) THEN [merged EXCEPT !.id = PyStr(payload.id)] ELSE merged

\* merge_api_payload that takes the id and nothing else
AggregatedLocation_merge_api_payload_id_only(self, payload) == TakeId(self, payload)

AggregatedLocation_merge_api_payload(self, payload) ==
    TakeId(AggregatedLocation_merge(self, payload), payload)

AggregatedHazard_merge_api_payload(self, payload) ==
    TakeId(AggregatedHazard_merge(self, payload), payload)

-----------------------------------------------------------------------------
(* GoogleMapsHydrator.  A place of the places() result is a record         *)
(* [name, lat, lng, place_id, photo_reference]; an entry of the geocode()  *)
(* result is a record [bounds, viewport], each a record                    *)
(* [obj, ne_lat, ne_lng, sw_lat, sw_lng] (obj: the value is a dict with     *)
(* dict corners).                                                          *)

PHOTO_URL ==
    <<104, 116, 116, 112, 115, 58, 47, 47, 109, 97, 112, 115, 46, 103, 111, 111, 103,
      108, 101, 97, 112, 105, 115, 46, 99, 111, 109, 47, 109, 97, 112, 115, 47, 97, 112,
      105, 47, 112, 108, 97, 99, 101, 47, 112, 104, 111, 116, 111, 63, 109, 97, 120, 119,
      105, 100, 116, 104, 61, 49, 54, 48, 48, 38, 112, 104, 111, 116, 111, 95, 114, 101,
      102, 101, 114, 101, 110, 99, 101, 61>>

KEY_PARAM == <<38, 107, 101, 121, 61>>

\* GoogleMapsHydrator.api_key of the run
API_KEY == <<75>>

_rectangle_from_bounds(bounds) ==
    IF ~bounds.obj THEN <<>>
    ELSE LET ne_lat == to_float(Get(bounds.ne_lat))
             ne_lng == to_float(Get(bounds.ne_lng))
             sw_lat == to_float(Get(bounds.sw_lat))
             sw_lng == to_float(Get(bounds.sw_lng))
         IN  IF IsNone(ne_lat) \/ IsNone(ne_lng) \/ IsNone(sw_lat) \/ IsNone(sw_lng) THEN <<>>
             ELSE LET northeast == [latitude |-> ne_lat[2], longitude |-> ne_lng[2]]
                      northwest == [latitude |-> ne_lat[2], longitude |-> sw_lng[2]]
                      southwest == [latitude |-> sw_lat[2], longitude |-> sw_lng[2]]
                      southeast == [latitude |-> sw_lat[2], longitude |-> ne_lng[2]]
                  IN  <<northeast, northwest, southwest, southeast, northeast>>

\* the loop of _hydrate_boundary over the geocode entries: the first polygon
RECURSIVE FirstRectangle(_)
FirstRectangle(results) ==
    IF results = <<>> THEN <<>>
    ELSE LET fromBounds == _rectangle_from_bounds(Head(results).bounds)
             polygon == IF fromBounds # <<>> THEN fromBounds
                        ELSE _rectangle_from_bounds(Head(results).viewport)
         IN  IF polygon # <<>> THEN polygon ELSE FirstRectangle(Tail(results))

\* geocode is <<"fail">> or <<"data", results>>
_hydrate_boundary(location, geocode) ==
    IF geocode[1] # "data" THEN location
    ELSE LET polygon == FirstRectangle(geocode[2]) IN
         IF polygon # <<>> THEN [location EXCEPT !.boundary = polygon] ELSE location

NeedsDetails(location) ==
    LET needs_geometry ==
            IsNone(location.latitude) \/ IsNone(location.longitude) \/ location.boundary = <<>>
    IN  ~Truthy(location.image) \/ ~Truthy(location.google_maps_id) \/ needs_geometry

\* str(item.get("name", ""))
PlaceName(place) == IF place.name[1] = "absent" THEN <<>> ELSE place.name[2]

\* the index of the first maximal score
FirstMax(scores) ==
    CHOOSE i \in 1..Len(scores) :
        /\ \A j \in 1..Len(scores) : ~FracLess(scores[i], scores[j])
        /\ \A j \in 1..(i - 1) : FracLess(scores[j], scores[i])

\* max(candidates, key=score): the first candidate of maximal score
BestPlace(candidates, name) ==
    candidates[FirstMax([i \in 1..Len(candidates) |->
                            score_name(PlaceName(candidates[i]), name)])]

\* lines 343-362: the fields taken from the chosen place
FillFromPlace(location, lat, lng, place_id, reference) ==
    [location EXCEPT
        !.latitude = IF IsNone(location.latitude) /\ ~IsNone(lat) THEN lat ELSE @,
        !.longitude = IF IsNone(location.longitude) /\ ~IsNone(lng) THEN lng ELSE @,
        !.google_maps_id =
            IF IsStr(place_id) /\ Truthy(place_id) /\ ~Truthy(location.google_maps_id)
            THEN place_id ELSE @,
        !.image =
            IF ~Truthy(location.image) /\ IsStr(reference) /\ Truthy(reference)
            THEN JStr(PHOTO_URL \o reference[2] \o KEY_PARAM \o API_KEY) ELSE @]

ApplyPlace(location, best) ==
    FillFromPlace(location, to_float(Get(best.lat)), to_float(Get(best.lng)),
                  Get(best.place_id), Get(best.photo_reference))

\* whether hydrate goes on to call geocode for the chosen place
CallsGeocode(location, best) == Truthy(Get(best.place_id)) /\ location.boundary = <<>>

\* lines 343-365 for the chosen place
HydrateFrom(location, best, geocode) ==
    IF CallsGeocode(location, best) THEN _hydrate_boundary(ApplyPlace(location, best), geocode)
    ELSE ApplyPlace(location, best)

\* GoogleMapsHydrator.hydrate with a client; places is <<"fail">> or
\* <<"data", candidates>>, geocode the outcome of the geocode call if made
hydrate(location, places, geocode) ==
    IF ~NeedsDetails(location) THEN location
    ELSE IF places[1] # "data" THEN location
    ELSE IF places[2] = <<>> THEN location
    ELSE HydrateFrom(location, BestPlace(places[2], location.name), geocode)

-----------------------------------------------------------------------------
(* Transformer.transform_documents as a state machine *)

\* the stages with _assign_new_ids called ahead of _hydrate_locations
StageAfter_assign_first(stage) ==
    CASE stage = "ingest" -> "attach_locations"
      [] stage = "attach_locations" -> "attach_hazards"
      [] stage = "attach_hazards" -> "assign"
      [] stage = "assign" -> "hydrate"
      [] stage = "hydrate" -> "emit"
      [] OTHER -> "done"

\* the order of the calls in transform_documents (lines 417-424)
StageAfter(stage) ==
    CASE stage = "ingest" -> "attach_locations"
      [] stage = "attach_locations" -> "attach_hazards"
      [] stage = "attach_hazards" -> "hydrate"
      [] stage = "hydrate" -> "assign"
      [] stage = "assign" -> "emit"
      [] OTHER -> "done"

\* whether a stage's loop has an iteration to run
HasWork(stage, locs, hzs, api) ==
    CASE stage = "attach_locations" -> api /\ locs # <<>>
      [] stage = "attach_hazards" -> api /\ hzs # <<>>
      [] stage = "hydrate" -> locs # <<>>
      [] OTHER -> TRUE

RECURSIVE Enter(_, _, _, _)
Enter(stage, locs, hzs, api) ==
    IF HasWork(stage, locs, hzs, api) THEN stage
    ELSE Enter(StageAfter(stage), locs, hzs, api)

Event(op, key) == [op |-> op, key |-> key]

\* the position after iteration idx of a loop over n items of stage pc
Advance(n, locs, hzs) ==
    IF idx < n THEN pc' = pc /\ idx' = idx + 1
    ELSE pc' = Enter(StageAfter(pc), locs, hzs, hasApi) /\ idx' = 1

\* one iteration of the loop over the documents
IngestDocument ==
    /\ pc = "ingest"
    /\ \E st \in {IngestAll([locations |-> locations, hazards |-> hazards, raised |-> FALSE],
                            <<docs[idx]>>)} :
          /\ locations' = st.locations
          /\ hazards' = st.hazards
          /\ IF st.raised THEN pc' = "raised" /\ idx' = idx
             ELSE Advance(Len(docs), st.locations, st.hazards)
    /\ trace' = Append(trace, Event("ingest", <<>>))
    /\ UNCHANGED <<docs, hasApi, hasMaps, locCache, hazCache, output>>
    /\ UNCHANGED <<raw_boundary, polygons, recorded, args, returned, files>>

\* _assign_new_ids
AssignNewIds ==
    /\ pc = "assign"
    /\ locations' = AssignIds(locations, NEW_LOCATION_PREFIX)
    /\ hazards' = AssignIds(hazards, NEW_HAZARD_PREFIX)
    /\ pc' = StageAfter(pc)
    /\ trace' = Append(trace, Event("assign", <<>>))
    /\ UNCHANGED <<docs, hasApi, hasMaps, idx, locCache, hazCache, output>>
    /\ UNCHANGED <<raw_boundary, polygons, recorded, args, returned, files>>

\* _build_output and the return
BuildOutput ==
    /\ pc = "emit"
    /\ output' = <<_build_output(locations, hazards)>>
    /\ pc' = StageAfter(pc)
    /\ trace' = Append(trace, Event("emit", <<>>))
    /\ UNCHANGED <<docs, hasApi, hasMaps, idx, locations, hazards, locCache, hazCache>>
    /\ UNCHANGED <<raw_boundary, polygons, recorded, args, returned, files>>

-----------------------------------------------------------------------------
(* The inputs of the model: character strings, fragments, documents and    *)
(* the answers of the two collaborators.                                   *)

\* "A", "B", "H", "G" and lower-case / padded spellings of them
S_A == <<65>>

S_a_padded == <<32, 97, 32>>

S_B == <<66>>

S_b_padded == <<32, 98, 32>>

S_H == <<72>>

S_h_padded == <<32, 104, 32>>

S_G == <<71>>

S_g == <<103>>

S_blank == <<32>>

LocationFragment ==
    [obj |-> TRUE, name |-> Absent, type |-> Absent, latitude |-> Absent,
     longitude |-> Absent, description |-> Absent, image |-> Absent,
     google_maps_id |-> Absent, googleMapsId |-> Absent, boundary |-> Absent]

HazardFragment ==
    [obj |-> TRUE, name |-> Absent, severity |-> Absent, type |-> Absent,
     description |-> Absent, presentations |-> <<>>]

PresentationFragment ==
    [obj |-> TRUE, location |-> Absent, notes |-> Absent, description |-> Absent,
     boundary |-> Absent]

\* a JSON value that is no object, in the place of a fragment or a document
NotAnObject(r) == [r EXCEPT !.obj = FALSE]

Document(locs, hzs) == [obj |-> TRUE, locations |-> locs, hazards |-> hzs]

Named(fragment, name) == [fragment EXCEPT !.name = name]

At(location) == [PresentationFragment EXCEPT !.location = location]

With(hazard, ps) == [hazard EXCEPT !.presentations = ps]

\* every sequence of at most n documents of a pool
DocSeqs(pool, n) == UNION {[1..k -> pool] : k \in 0..n}

Triangle(a, b, c) ==
    JList(<<JPoint(JNum(a), JNum(a)), JPoint(JNum(b), JNum(a)), JPoint(JNum(c), JNum(b))>>)

-----------------------------------------------------------------------------
(* Documents that vary the names and the shape of the entries *)

MaxDocs == 2

LocationNames ==
    {Absent, None, JNum(7), JStr(S_blank), JStr(S_A), JStr(S_a_padded), JStr(S_B)}

HazardNames == {None, JStr(S_blank), JStr(S_H), JStr(S_h_padded), JStr(S_G)}

PresentationLists ==
    {<<>>, <<NotAnObject(PresentationFragment)>>, <<At(None)>>, <<At(JStr(S_A))>>,
     <<At(JStr(S_b_padded))>>}

NameDocs ==
    {Document(<<Named(LocationFragment, n)>>, <<>>) : n \in LocationNames}
    \cup {Document(<<>>, <<With(Named(HazardFragment, n), ps)>>) :
            n \in HazardNames, ps \in PresentationLists}
    \cup {Document(<<NotAnObject(LocationFragment)>>, <<NotAnObject(HazardFragment)>>),
          NotAnObject(Document(<<>>, <<>>)),
          Document(<<Named(LocationFragment, JStr(S_B)), Named(LocationFragment, None)>>,
                   <<Named(HazardFragment, JStr(S_G))>>),
          Document(<<Named(LocationFragment, JStr(S_B)),
                     Named(LocationFragment, JStr(S_a_padded))>>,
                   <<With(Named(HazardFragment, JStr(S_H)), <<At(JStr(S_a_padded))>>),
                     With(Named(HazardFragment, JStr(S_g)), <<At(JStr(S_a_padded))>>),
                     With(Named(HazardFragment, JStr(S_B)), <<At(JStr(S_a_padded))>>)>>)}

-----------------------------------------------------------------------------
(* Documents that vary what the fragments of one hazard and of its          *)
(* presentations carry                                                      *)

MaxMergeDocs == 2

S_LOW_padded == <<32, 76, 79, 87, 32>>

S_Event_padded == <<32, 69, 118, 101, 110, 116, 32>>

S_bogus == <<98, 111, 103, 117, 115>>

S_n_padded == <<32, 110, 32>>

SeverityValues == {Absent, JStr(STR_HIGH), JStr(S_LOW_padded), JStr(S_bogus)}

TypeValues == {Absent, JStr(S_Event_padded), JStr(S_bogus)}

NoteValues == {Absent, JStr(<<110>>), JStr(S_n_padded), JStr(<<109>>), JStr(S_blank)}

DescriptionValues == {Absent, JStr(<<100>>)}

\* two usable polygons, a 2-point list, and a triangle that loses its first
\* point (latitude 0 reads as missing)
BoundaryValues ==
    {Triangle(1, 2, 3),
     Triangle(4, 5, 6),
     JList(<<JPoint(JNum(1), JNum(1)), JPoint(JNum(2), JNum(2))>>),
     JList(<<JPoint(JNum(0), JNum(1)), JPoint(JNum(1), JNum(1)), JPoint(JNum(1), JNum(2))>>)}

HazardAt(name, presentation) ==
    Document(<<>>, <<With(Named(HazardFragment, JStr(name)), <<presentation>>)>>)

MergeDocs ==
    {Document(<<>>, <<[HazardFragment EXCEPT
                          !.name = JStr(S_H), !.severity = s, !.type = ty]>>) :
        s \in SeverityValues, ty \in TypeValues}
    \cup {HazardAt(S_H, [At(JStr(S_A)) EXCEPT !.notes = n, !.description = d]) :
            n \in NoteValues, d \in DescriptionValues}
    \cup {HazardAt(S_h_padded, [At(JStr(S_a_padded)) EXCEPT !.boundary = b]) :
            b \in BoundaryValues}
    \cup {HazardAt(S_G, [At(JStr(S_A)) EXCEPT !.notes = JStr(<<109>>),
                                              !.boundary = Triangle(4, 5, 6)]),
          HazardAt(S_H, [At(JStr(S_b_padded)) EXCEPT !.notes = JStr(<<110>>)]),
          Document(<<[LocationFragment EXCEPT !.name = JStr(S_A), !.type = JStr(S_bogus)]>>,
                   <<>>)}

-----------------------------------------------------------------------------
(* The answers of the catalog and of the enrichment service *)

Fail == <<"fail">>

Data(s) == <<"data", s>>

S_c == <<99>>

S_d == <<100>>

S_e == <<101>>

S_i == <<105>>

S_j == <<106>>

S_n == <<110>>

S_m == <<109>>

S_p == <<112>>

S_q == <<113>>

S_r == <<114>>

S_x == <<120>>

S_X == <<88>>

S_region_padded == <<32, 114, 101, 103, 105, 111, 110, 32>>

CatalogLocationA ==
    [id |-> JNum(42), name |-> JStr(S_A), type |-> JStr(STR_NATIONAL_PARK),
     latitude |-> JNum(5), longitude |-> JNum(6), description |-> JStr(S_c),
     image |-> JStr(S_j), google_maps_id |-> JStr(S_q), googleMapsId |-> Absent,
     boundary |-> Triangle(4, 5, 6)]

CatalogLocationB ==
    [LocationFragment EXCEPT !.name = JStr(S_B)] @@ [id |-> JStr(NEW_LOCATION_PREFIX \o <<49>>)]

CatalogHazardH ==
    [id |-> JNum(7), name |-> JStr(S_H), severity |-> JStr(STR_LOW), type |-> JStr(STR_EVENT),
     description |-> JStr(S_x)]

LocationResponses ==
    {Fail, Data(<<>>), Data(<<CatalogLocationA>>), Data(<<CatalogLocationB, CatalogLocationA>>)}

HazardResponses == {Fail, Data(<<CatalogHazardH>>)}

PlaceA ==
    [name |-> JStr(S_A), lat |-> JNum(8), lng |-> JNum(9), place_id |-> JStr(S_p),
     photo_reference |-> JStr(S_r)]

PlaceX ==
    [name |-> JStr(S_X), lat |-> JNum(7), lng |-> Absent, place_id |-> JStr(S_x),
     photo_reference |-> Absent]

PlacesOutcomes == {Fail, Data(<<>>), Data(<<PlaceA>>), Data(<<PlaceX>>)}

NoBounds == [obj |-> FALSE, ne_lat |-> Absent, ne_lng |-> Absent, sw_lat |-> Absent, sw_lng |-> Absent]

Bounds(n, e, s, w) ==
    [obj |-> TRUE, ne_lat |-> JNum(n), ne_lng |-> JNum(e), sw_lat |-> JNum(s), sw_lng |-> JNum(w)]

GeocodeOutcomes ==
    {Fail,
     Data(<<[bounds |-> NoBounds, viewport |-> Bounds(4, 4, 2, 2)]>>),
     Data(<<[bounds |-> Bounds(9, 9, 1, 1), viewport |-> Bounds(4, 4, 2, 2)]>>)}

-----------------------------------------------------------------------------
(* Initial states and specifications *)

InitWith(pool, n, apis, maps) ==
    /\ docs \in DocSeqs(pool, n)
    /\ hasApi \in apis
    /\ hasMaps \in maps
    /\ pc = IF docs = <<>> THEN Enter(StageAfter("ingest"), <<>>, <<>>, hasApi) ELSE "ingest"
    /\ idx = 1
    /\ locations = <<>>
    /\ hazards = <<>>
    /\ locCache = <<>>
    /\ hazCache = <<>>
    /\ trace = <<>>
    /\ output = <<>>
    /\ raw_boundary = None
    /\ polygons = <<>>
    /\ recorded = <<>>
    /\ args = <<>>
    /\ returned = <<>>
    /\ files = {}

\* lines 465-466 without the `if match` test, None read as a catalog entry
AttachLocation_without_test(location, match) ==
    AggregatedLocation_merge_api_payload(location,
        IF match # <<>> THEN match[1] ELSE CatalogLocationA)

\* lines 465-466 / 469-470: merge_api_payload on a match
AttachLocation(location, match) ==
    IF match # <<>> THEN AggregatedLocation_merge_api_payload(location, match[1]) ELSE location

AttachHazard(hazard, match) ==
    IF match # <<>> THEN AggregatedHazard_merge_api_payload(hazard, match[1]) ELSE hazard

\* the request of a lookup that misses the cache, and its failure if it fails
HttpEvent(op, cache, entity, response) ==
    IF ~CacheMiss(cache, entity.name) THEN <<>>
    ELSE IF response = Fail THEN <<Event(op, entity.key), Event("lookup_failed", entity.key)>>
    ELSE <<Event(op, entity.key)>>

\* one iteration of the loop over the locations in _attach_existing_ids:
\* find_location, then merge_api_payload on a match
FindLocation ==
    /\ pc = "attach_locations"
    /\ \E response \in LocationResponses :
          \E found \in {CacheLookup(locCache, locations[idx].name, response)} :
             /\ locCache' = found[1]
             /\ locations' = [locations EXCEPT ![idx] = AttachLocation(@, found[2])]
             /\ trace' = trace \o <<Event("find_location", locations[idx].key)>>
                         \o HttpEvent("http_location", locCache, locations[idx], response)
    /\ Advance(Len(locations), locations', hazards)
    /\ UNCHANGED <<docs, hasApi, hasMaps, hazards, hazCache, output>>
    /\ UNCHANGED <<raw_boundary, polygons, recorded, args, returned, files>>

\* one iteration of the loop over the hazards in _attach_existing_ids
FindHazard ==
    /\ pc = "attach_hazards"
    /\ \E response \in HazardResponses :
          \E found \in {CacheLookup(hazCache, hazards[idx].name, response)} :
             /\ hazCache' = found[1]
             /\ hazards' = [hazards EXCEPT ![idx] = AttachHazard(@, found[2])]
             /\ trace' = trace \o <<Event("find_hazard", hazards[idx].key)>>
                         \o HttpEvent("http_hazard", hazCache, hazards[idx], response)
    /\ Advance(Len(hazards), locations, hazards')
    /\ UNCHANGED <<docs, hasApi, hasMaps, locations, locCache, output>>
    /\ UNCHANGED <<raw_boundary, polygons, recorded, args, returned, files>>

NoCall == <<"none">>

\* the outcomes of the places() call hydrate makes for a location, if any
PlacesFor(location) ==
    IF hasMaps /\ NeedsDetails(location) THEN PlacesOutcomes ELSE {NoCall}

\* the outcomes of the geocode() call that follows, if any
GeocodeFor(location, places) ==
    IF /\ places[1] = "data"
       /\ places[2] # <<>>
       /\ CallsGeocode(location, BestPlace(places[2], location.name))
    THEN GeocodeOutcomes ELSE {NoCall}

\* hydrator.hydrate(location): without a client the call returns at once
HydratorCall(location, places, geocode) ==
    IF hasMaps THEN hydrate(location, places, geocode) ELSE location

\* one iteration of _hydrate_locations
HydrateLocation ==
    /\ pc = "hydrate"
    /\ \E places \in PlacesFor(locations[idx]) :
          \E geocode \in GeocodeFor(locations[idx], places) :
             locations' = [locations EXCEPT ![idx] = HydratorCall(@, places, geocode)]
    /\ trace' = Append(trace, Event("hydrate", locations[idx].key))
    /\ Advance(Len(locations), locations', hazards)
    /\ UNCHANGED <<docs, hasApi, hasMaps, hazards, locCache, hazCache, output>>
    /\ UNCHANGED <<raw_boundary, polygons, recorded, args, returned, files>>

NextLocal == IngestDocument \/ HydrateLocation \/ AssignNewIds \/ BuildOutput

InitNames == InitWith(NameDocs, MaxDocs, {FALSE}, {FALSE})

SpecNames == InitNames /\ [][NextLocal]_vars


-----------------------------------------------------------------------------
(* Documents of the full pipeline: two locations and two hazards, with the *)
(* attributes the catalog and the enrichment service can also supply       *)

MaxRunDocs == 2

RunDocs ==
    {Document(<<[LocationFragment EXCEPT
                    !.name = JStr(S_A), !.type = JStr(S_region_padded),
                    !.latitude = JNum(1), !.longitude = JNum(2),
                    !.description = JStr(S_d), !.image = JStr(S_i),
                    !.google_maps_id = JStr(S_g), !.boundary = Triangle(1, 2, 3)]>>, <<>>),
     Document(<<[LocationFragment EXCEPT
                    !.name = JStr(S_a_padded), !.latitude = JNum(3),
                    !.description = JStr(S_e), !.googleMapsId = JStr(S_m)]>>, <<>>),
     Document(<<[LocationFragment EXCEPT !.name = JStr(S_B), !.latitude = JNum(0)]>>,
              <<[HazardFragment EXCEPT
                    !.name = JStr(S_H), !.severity = JStr(STR_HIGH),
                    !.presentations = <<[At(JStr(S_A)) EXCEPT !.notes = JStr(S_n)]>>]>>),
     Document(<<>>,
              <<[HazardFragment EXCEPT
                    !.name = JStr(S_h_padded), !.type = JStr(STR_ANIMAL),
                    !.description = JStr(S_d),
                    !.presentations = <<[At(JStr(S_B)) EXCEPT !.boundary = Triangle(1, 2, 3)]>>],
                Named(HazardFragment, JStr(S_G))>>)}

InitMerge == InitWith(MergeDocs, MaxMergeDocs, {FALSE}, {FALSE})

SpecMerge == InitMerge /\ [][NextLocal]_vars

Init == InitWith(RunDocs, MaxRunDocs, BOOLEAN, BOOLEAN)

Next ==
    IngestDocument \/ FindLocation \/ FindHazard \/ HydrateLocation \/ AssignNewIds \/ BuildOutput

Spec == Init /\ [][Next]_vars

-----------------------------------------------------------------------------
(* A second call of transform_documents on the same Transformer and client. *)
(* __init__ is the only place that creates the maps and the caches;         *)
(* transform_documents starts from whatever they hold.                      *)

MaxAgainDocs == 1

AgainDocs ==
    {Document(<<Named(LocationFragment, JStr(S_A))>>, <<>>),
     Document(<<Named(LocationFragment, JStr(S_B))>>,
              <<[HazardFragment EXCEPT
                    !.name = JStr(S_H),
                    !.presentations = <<[At(JStr(S_A)) EXCEPT !.notes = JStr(S_n)]>>]>>)}

Called == \E n \in 1..Len(trace) : trace[n].op = "call"

\* the caller calls transform_documents once more when the first call has
\* returned
TransformAgain ==
    /\ pc = "done"
    /\ ~Called
    /\ \E documents \in DocSeqs(AgainDocs, MaxAgainDocs) :
          /\ docs' = documents
          /\ pc' = IF documents = <<>>
                   THEN Enter(StageAfter("ingest"), locations, hazards, hasApi)
                   ELSE "ingest"
    /\ idx' = 1
    /\ output' = <<>>
    /\ trace' = Append(trace, Event("call", <<>>))
    /\ UNCHANGED <<hasApi, hasMaps, locations, hazards, locCache, hazCache>>
    /\ UNCHANGED <<raw_boundary, polygons, recorded, args, returned, files>>

InitAgain == InitWith(AgainDocs, MaxAgainDocs, BOOLEAN, {FALSE})

NextAgain == Next \/ TransformAgain

SpecAgain == InitAgain /\ [][NextAgain]_vars


-----------------------------------------------------------------------------
(* elk/api/hazards/geometry.py: normalize_boundary.  A call ends in        *)
(* <<"ok", value>> or in <<"raise", kind>> with the exception's class.      *)

Ok(value) == <<"ok", value>>

Raise(kind) == <<"raise", kind>>

IsDict(value) == value[1] \in {"point", "geo"}

\* the exception float(value) raises, or "none"
FloatError(value) ==
    IF ~IsNone(to_float(value)) THEN "none"
    ELSE IF IsStr(value) THEN "ValueError"
    ELSE "TypeError"

K_latitude == <<108, 97, 116, 105, 116, 117, 100, 101>>

K_longitude == <<108, 111, 110, 103, 105, 116, 117, 100, 101>>

K_type == <<116, 121, 112, 101>>

K_coordinates == <<99, 111, 111, 114, 100, 105, 110, 97, 116, 101, 115>>

IfPresent(v, key) == IF v = Absent THEN <<>> ELSE <<JStr(key)>>

\* the keys of a dict
Keys(value) ==
    IF value[1] = "point" THEN IfPresent(value[2], K_latitude) \o IfPresent(value[3], K_longitude)
    ELSE (IF value[2] = "absent" THEN <<>> ELSE <<JStr(K_type)>>)
         \o IfPresent(value[3], K_coordinates)

\* iter(value): the items in a one-element sequence, <<>> if not iterable
Items(value) ==
    CASE IsList(value) -> <<value[2]>>
      [] IsStr(value) -> <<[i \in 1..Len(value[2]) |-> JStr(<<value[2][i]>>)]>>
      [] IsDict(value) -> <<Keys(value)>>
      [] OTHER -> <<>>

\* value[0]
First(value) ==
    CASE IsList(value) \/ IsStr(value) ->
            IF value[2] = <<>> THEN Raise("IndexError") ELSE Ok(Items(value)[1][1])
      [] IsDict(value) -> Raise("KeyError")
      [] OTHER -> Raise("TypeError")

_looks_like_point(raw) ==
    \/ IsList(raw) /\ Len(raw[2]) = 2
    \/ raw[1] = "point" /\ raw[2] # Absent /\ raw[3] # Absent

\* Point(float(lat), float(lng))
PointOf(lat, lng) ==
    IF FloatError(lat) # "none" THEN Raise(FloatError(lat))
    ELSE IF FloatError(lng) # "none" THEN Raise(FloatError(lng))
    ELSE Ok([latitude |-> to_float(lat)[2], longitude |-> to_float(lng)[2]])

\* a KeyError becomes a ValueError; what float() raises is not caught
_coerce_point(raw) ==
    IF IsList(raw) /\ Len(raw[2]) = 2 THEN PointOf(raw[2][1], raw[2][2])
    ELSE IF raw[1] = "point" THEN
         (IF raw[2] = Absent THEN Raise("ValueError")
          ELSE IF FloatError(raw[2]) # "none" THEN Raise(FloatError(raw[2]))
          ELSE IF raw[3] = Absent THEN Raise("ValueError")
          ELSE PointOf(raw[2], raw[3]))
    ELSE Raise("ValueError")

\* [_coerce_point(p) for p in items]
RECURSIVE CoerceAll(_)
CoerceAll(items) ==
    IF items = <<>> THEN Ok(<<>>)
    ELSE LET head == _coerce_point(Head(items)) IN
         IF head[1] = "raise" THEN head
         ELSE LET rest == CoerceAll(Tail(items)) IN
              IF rest[1] = "raise" THEN rest ELSE Ok(<<head[2]>> \o rest[2])

\* add_polygon: the polygon appended to boundary, or the exception
add_polygon(raw_polygon) ==
    IF Items(raw_polygon) = <<>> THEN Raise("TypeError")
    ELSE LET coerced == CoerceAll(Items(raw_polygon)[1]) IN
         IF coerced[1] = "raise" THEN coerced
         ELSE IF Len(coerced[2]) < 3 THEN Raise("ValueError")
         ELSE coerced

\* the conditional expression of lines 98 and 101 that always takes x
FirstRing_whole(x) == Ok(x)

\* x[0] if x and not _looks_like_point(x[0]) else x
FirstRing(x) ==
    IF ~Truthy(x) THEN Ok(x)
    ELSE IF First(x)[1] = "raise" THEN First(x)
    ELSE IF _looks_like_point(First(x)[2]) THEN Ok(x)
    ELSE First(x)

\* a loop of add_polygon calls over arguments that are each Ok(raw polygon)
\* or the exception raised on the way to the call
RECURSIVE AddPolygons(_)
AddPolygons(arguments) ==
    IF arguments = <<>> THEN Ok(<<>>)
    ELSE LET added == IF Head(arguments)[1] = "raise" THEN Head(arguments)
                      ELSE add_polygon(Head(arguments)[2])
         IN  IF added[1] = "raise" THEN added
             ELSE LET rest == AddPolygons(Tail(arguments)) IN
                  IF rest[1] = "raise" THEN rest ELSE Ok(<<added[2]>> \o rest[2])

\* the dict branch, on raw.get("type") and a truthy raw.get("coordinates")
BoundaryOfDict(boundary_type, coordinates) ==
    IF boundary_type = "Polygon" THEN AddPolygons(<<FirstRing(coordinates)>>)
    ELSE IF boundary_type = "MultiPolygon" THEN
         (IF Items(coordinates) = <<>> THEN Raise("TypeError")
          ELSE AddPolygons([i \in 1..Len(Items(coordinates)[1]) |->
                               FirstRing(Items(coordinates)[1][i])]))
    ELSE Raise("ValueError")

\* the list branch
BoundaryOfList(items) ==
    IF items = <<>> THEN Ok(<<>>)
    ELSE IF \A i \in 1..Len(items) : _looks_like_point(items[i])
    THEN AddPolygons(<<Ok(JList(items))>>)
    ELSE AddPolygons([i \in 1..Len(items) |->
                         IF IsList(items[i]) THEN Ok(items[i]) ELSE Raise("ValueError")])

\* geometry.normalize_boundary
geometry_normalize_boundary(raw) ==
    IF IsNone(raw) THEN Ok(<<>>)
    ELSE IF raw[1] = "point" THEN Raise("ValueError")
    ELSE IF raw[1] = "geo" THEN
         (IF ~Truthy(Get(raw[3])) THEN Raise("ValueError")
          ELSE BoundaryOfDict(raw[2], raw[3]))
    ELSE IF IsList(raw) THEN BoundaryOfList(raw[2])
    ELSE Raise("ValueError")

-----------------------------------------------------------------------------
(* normalize_boundary of geometry.py and of transformer.py, each called on *)
(* its own on one raw boundary                                             *)

MaxPoints == 3

\* three points as [lat, lng] pairs, three as latitude/longitude objects,
\* one of them on the equator, and two values that are no point
PointValues ==
    {JList(<<JNum(1), JNum(1)>>), JList(<<JNum(2), JNum(1)>>), JList(<<JNum(3), JNum(2)>>),
     JPoint(JNum(1), JNum(1)), JPoint(JNum(2), JNum(1)), JPoint(JNum(0), JNum(2)),
     JNum(5), JPoint(JNum(1), Absent)}

Rings == {JList(r) : r \in UNION {[1..k -> PointValues] : k \in 0..MaxPoints}}

\* a further ring of a GeoJSON Polygon, after the first
SecondRing ==
    JList(<<JList(<<JNum(4), JNum(4)>>), JList(<<JNum(5), JNum(4)>>),
            JList(<<JNum(6), JNum(5)>>)>>)

\* every ring as a flat list, as a list of one polygon, as the first ring of
\* a GeoJSON Polygon and of a MultiPolygon, and under a type that is neither;
\* and some values that are no boundary
RawBoundaries ==
    Rings
    \cup {JList(<<r>>) : r \in Rings}
    \cup {JGeo("Polygon", JList(<<r>>)) : r \in Rings}
    \cup {JGeo("MultiPolygon", JList(<<JList(<<r>>)>>)) : r \in Rings}
    \cup {JGeo("Point", r) : r \in {x \in Rings : Len(x[2]) <= 1}}
    \cup {JGeo("Polygon", JList(<<r, SecondRing>>)) : r \in Rings}
    \cup {None, JNum(5), JStr(<<97, 98>>), JPoint(JNum(1), JNum(1)),
          JGeo("Polygon", Absent), JGeo("absent", JList(<<JNum(1), JNum(2)>>))}

InitBoundary ==
    /\ raw_boundary \in RawBoundaries
    /\ polygons = <<>>
    /\ recorded = <<>>
    /\ pc = "boundary"
    /\ docs = <<>>
    /\ hasApi = FALSE
    /\ hasMaps = FALSE
    /\ idx = 1
    /\ locations = <<>>
    /\ hazards = <<>>
    /\ locCache = <<>>
    /\ hazCache = <<>>
    /\ trace = <<>>
    /\ output = <<>>
    /\ args = <<>>
    /\ returned = <<>>
    /\ files = {}

\* geometry.normalize_boundary(raw_boundary)
NormalizeGeometry ==
    /\ pc = "boundary"
    /\ polygons = <<>>
    /\ polygons' = <<geometry_normalize_boundary(raw_boundary)>>
    /\ UNCHANGED <<docs, hasApi, hasMaps, pc, idx, locations, hazards, locCache, hazCache,
                   trace, output, raw_boundary, recorded, args, returned, files>>

\* transformer.normalize_boundary(raw_boundary), as merge calls it in Ingest
NormalizeForIngest ==
    /\ pc = "boundary"
    /\ recorded = <<>>
    /\ recorded' = <<IF BoundaryRaises(raw_boundary) THEN Raise("Exception")
                     ELSE Ok(normalize_boundary(raw_boundary))>>
    /\ UNCHANGED <<docs, hasApi, hasMaps, pc, idx, locations, hazards, locCache, hazCache,
                   trace, output, raw_boundary, polygons, args, returned, files>>

NextBoundary == NormalizeGeometry \/ NormalizeForIngest

SpecBoundary == InitBoundary /\ [][NextBoundary]_vars

-----------------------------------------------------------------------------
(* The operations below are called on their own, outside a run of          *)
(* transform_documents.                                                     *)

runVars == <<docs, hasApi, hasMaps, locations, hazards, output>>

boundaryVars == <<raw_boundary, polygons, recorded>>

NoRun ==
    /\ docs = <<>>
    /\ hasMaps = FALSE
    /\ locations = <<>>
    /\ hazards = <<>>
    /\ output = <<>>
    /\ raw_boundary = None
    /\ polygons = <<>>
    /\ recorded = <<>>

-----------------------------------------------------------------------------
(* One ElkApiClient and a sequence of find_location / find_hazard calls on  *)
(* it, each with a name and an outcome of its HTTP request.                 *)

MaxCalls == 3

LookupNames == {S_A, S_a_padded, S_B}

HazardLookupNames == {S_H, S_h_padded}

\* ElkApiClient.__init__
InitClient ==
    /\ pc = "client"
    /\ hasApi = TRUE
    /\ idx = 1
    /\ locCache = <<>>
    /\ hazCache = <<>>
    /\ trace = <<>>
    /\ args = <<>>
    /\ returned = <<>>
    /\ files = {}
    /\ NoRun

Lookup(name) == [name |-> name, key |-> normalize_name(name)]

find_location ==
    /\ pc = "client"
    /\ idx <= MaxCalls
    /\ \E name \in LookupNames, response \in LocationResponses :
          \E found \in {CacheLookup(locCache, name, response)} :
             /\ args' = <<name>>
             /\ locCache' = found[1]
             /\ returned' = <<found[2]>>
             /\ trace' = trace \o <<Event("find_location", name)>>
                         \o HttpEvent("http_location", locCache, Lookup(name), response)
    /\ idx' = idx + 1
    /\ UNCHANGED <<pc, hazCache, files>>
    /\ UNCHANGED <<runVars, boundaryVars>>

find_hazard ==
    /\ pc = "client"
    /\ idx <= MaxCalls
    /\ \E name \in HazardLookupNames, response \in HazardResponses :
          \E found \in {CacheLookup(hazCache, name, response)} :
             /\ args' = <<name>>
             /\ hazCache' = found[1]
             /\ returned' = <<found[2]>>
             /\ trace' = trace \o <<Event("find_hazard", name)>>
                         \o HttpEvent("http_hazard", hazCache, Lookup(name), response)
    /\ idx' = idx + 1
    /\ UNCHANGED <<pc, locCache, files>>
    /\ UNCHANGED <<runVars, boundaryVars>>

NextClient == find_location \/ find_hazard

SpecClient == InitClient /\ [][NextClient]_vars

-----------------------------------------------------------------------------
(* ElkApiClient._choose_best_match on a name and a list of candidates      *)

MaxCandidates == 3

S_Ab == <<65, 98>>

S_Abc == <<65, 98, 99>>

QueriedNames == {S_A, S_Ab, S_Abc}

Candidate(id, name) == [id |-> JNum(id), name |-> name]

\* two candidates equal up to case, a longer and an unrelated name, and two
\* candidates without a str name
CandidatePool ==
    {Candidate(1, JStr(S_A)), Candidate(2, JStr(<<97>>)), Candidate(3, JStr(S_Ab)),
     Candidate(4, JStr(S_x)), Candidate(5, JNum(5)), Candidate(6, Absent)}

InitBestMatch ==
    /\ pc = "best_match"
    /\ args \in QueriedNames \X UNION {[1..k -> CandidatePool] : k \in 0..MaxCandidates}
    /\ returned = <<>>
    /\ hasApi = TRUE
    /\ idx = 1
    /\ locCache = <<>>
    /\ hazCache = <<>>
    /\ trace = <<>>
    /\ files = {}
    /\ NoRun

\* self._choose_best_match(name, candidates)
ChooseBestMatch ==
    /\ pc = "best_match"
    /\ returned = <<>>
    /\ returned' = <<_choose_best_match(args[1], args[2])>>
    /\ UNCHANGED <<pc, idx, locCache, hazCache, trace, args, files>>
    /\ UNCHANGED <<runVars, boundaryVars>>

SpecBestMatch == InitBestMatch /\ [][ChooseBestMatch]_vars

-----------------------------------------------------------------------------
(* hazards/views.py: the limit parameter and the fuzzy ranking of the       *)
(* search endpoints.  A candidate is a record [id, name], name a str.       *)

FUZZY_MIN_SCORE == <<35, 100>>

DEFAULT_SEARCH_LIMIT == 10

MAX_SEARCH_LIMIT == 50

\* int(text) of a str: surrounding whitespace and one sign are allowed,
\* digits must follow; <<>> stands for ValueError
SignedDigits(t) ==
    IF t # <<>> /\ Head(t) \in {43, 45} THEN Tail(t) ELSE t

PyInt(text) ==
    IF SignedDigits(Strip(text)) # <<>>
       /\ \A i \in 1..Len(SignedDigits(Strip(text))) : IsDigit(SignedDigits(Strip(text))[i])
    THEN <<IF Head(Strip(text)) = 45 THEN 0 - DigitsValue(SignedDigits(Strip(text)))
           ELSE DigitsValue(SignedDigits(Strip(text)))>>
    ELSE <<>>

Min2(a, b) == IF a < b THEN a ELSE b

\* lines 45-47 on the parsed integer
LimitOf(limit_value) ==
    IF limit_value <= 0 THEN Raise("ValidationError")
    ELSE Ok(Min2(limit_value, MAX_SEARCH_LIMIT))

\* raw_limit is request.query_params.get("limit"): None or a str
_extract_limit_param(raw_limit) ==
    IF IsNone(raw_limit) THEN Ok(DEFAULT_SEARCH_LIMIT)
    ELSE IF PyInt(raw_limit[2]) = <<>> THEN Raise("ValidationError")
    ELSE LimitOf(PyInt(raw_limit[2])[1])

_score_name(candidate, query) ==
    IF candidate = <<>> THEN <<0, 1>> ELSE score_name(candidate, query)

\* the list `scored`: records [score, candidate]
Scored(candidates, query) ==
    [i \in 1..Len(candidates) |->
        [score |-> _score_name(candidates[i].name, query), candidate |-> candidates[i]]]

Significant(scored) == SelectSeq(scored, LAMBDA entry : ~FracLess(entry.score, FUZZY_MIN_SCORE))

\* `significant or scored`
Pool(scored) == IF Significant(scored) # <<>> THEN Significant(scored) ELSE scored

\* the sort key (-score, name) of x is less than that of y
KeyLess(x, y) ==
    \/ FracLess(y.score, x.score)
    \/ ~FracLess(x.score, y.score) /\ StrLess(x.candidate.name, y.candidate.name)

\* the keys in the order given, not sorted
SortByKey_as_given(pool) == pool

\* sorted(pool, key=...): stable
RECURSIVE SortByKey(_)
SortByKey(pool) ==
    IF pool = <<>> THEN <<>>
    ELSE LET minimal(i) == \A j \in 1..Len(pool) : ~KeyLess(pool[j], pool[i])
             m == CHOOSE i \in 1..Len(pool) : minimal(i) /\ \A j \in 1..(i - 1) : ~minimal(j)
         IN  <<pool[m]>> \o SortByKey(SubSeq(pool, 1, m - 1) \o SubSeq(pool, m + 1, Len(pool)))

\* sorted_pool[:limit] for limit >= 0, the candidates only
Leading(sorted_pool, limit) ==
    [i \in 1..Min2(limit, Len(sorted_pool)) |-> sorted_pool[i].candidate]

_fuzzy_rank(queryset, query, limit) ==
    IF queryset = <<>> THEN <<>>
    ELSE Leading(SortByKey(Pool(Scored(queryset, query))), limit)

MaxRanked == 3

S_ab == <<97, 98>>

S_abc == <<97, 98, 99>>

S_b == <<98>>

S_bxxx == <<98, 120, 120, 120>>

Queries == {S_ab, S_q}

\* names that score 0.95, 2/3 (three of them, two with the same name), 1/3
\* and 0 against 'ab', and all 0 against 'q'
RankedPool ==
    {Candidate(2, S_abc), Candidate(3, S_b), Candidate(4, S_B),
     Candidate(5, S_bxxx), Candidate(6, <<>>), Candidate(7, S_b)}

\* no limit, limits of 1, 2 and 51, with whitespace, and what is no limit
RawLimits ==
    {None, JStr(<<49>>), JStr(<<32, 50, 32>>), JStr(<<53, 49>>), JStr(<<48>>),
     JStr(<<45, 49>>), JStr(S_x)}

InitSearch ==
    /\ pc = "search"
    /\ \E q \in Queries, raw_limit \in RawLimits :
          \E queryset \in UNION {[1..k -> RankedPool] : k \in 0..MaxRanked} :
             args = [q |-> q, limit |-> raw_limit, queryset |-> queryset]
    /\ returned = <<>>
    /\ hasApi = FALSE
    /\ idx = 1
    /\ locCache = <<>>
    /\ hazCache = <<>>
    /\ trace = <<>>
    /\ files = {}
    /\ NoRun

\* limit = _extract_limit_param(request)
ExtractLimit ==
    /\ pc = "search"
    /\ returned = <<>>
    /\ returned' = <<_extract_limit_param(args.limit)>>
    /\ UNCHANGED <<pc, idx, locCache, hazCache, trace, args, files>>
    /\ UNCHANGED <<runVars, boundaryVars>>

\* results = _fuzzy_rank(queryset, query, limit=limit)
FuzzyRank ==
    /\ pc = "search"
    /\ Len(returned) = 1
    /\ returned[1][1] = "ok"
    /\ returned' = Append(returned, _fuzzy_rank(args.queryset, args.q, returned[1][2]))
    /\ UNCHANGED <<pc, idx, locCache, hazCache, trace, args, files>>
    /\ UNCHANGED <<runVars, boundaryVars>>

NextSearch == ExtractLimit \/ FuzzyRank

SpecSearch == InitSearch /\ [][NextSearch]_vars

-----------------------------------------------------------------------------
(* fjord experts: _parse_specialities on the values of the speciality and   *)
(* specialities query parameters.                                           *)

\* 'Endurance Training (marathon, triathlon prep)'
ENDURANCE_TRAINING ==
    <<69, 110, 100, 117, 114, 97, 110, 99, 101, 32, 84, 114, 97, 105, 110, 105, 110, 103,
      32, 40, 109, 97, 114, 97, 116, 104, 111, 110, 44, 32, 116, 114, 105, 97, 116, 104,
      108, 111, 110, 32, 112, 114, 101, 112, 41>>

\* 'Weight Loss / Fat Loss Programs'
WEIGHT_LOSS ==
    <<87, 101, 105, 103, 104, 116, 32, 76, 111, 115, 115, 32, 47, 32, 70, 97, 116, 32, 76,
      111, 115, 115, 32, 80, 114, 111, 103, 114, 97, 109, 115>>

\* 'Muscle Hypertrophy'
MUSCLE_HYPERTROPHY ==
    <<77, 117, 115, 99, 108, 101, 32, 72, 121, 112, 101, 114, 116, 114, 111, 112, 104, 121>>

\* 'Nutrition Coaching'
NUTRITION_COACHING ==
    <<78, 117, 116, 114, 105, 116, 105, 111, 110, 32, 67, 111, 97, 99, 104, 105, 110, 103>>

\* {choice.value for choice in Speciality}: the four values above and the
\* other 28, none of which holds a comma
Speciality ==
    {ENDURANCE_TRAINING, WEIGHT_LOSS, MUSCLE_HYPERTROPHY, NUTRITION_COACHING,
     <<83, 116, 114, 101, 110, 103, 116, 104, 32, 38, 32, 67, 111, 110, 100, 105, 116, 105,
       111, 110, 105, 110, 103>>,
     <<70, 117, 110, 99, 116, 105, 111, 110, 97, 108, 32, 70, 105, 116, 110, 101, 115, 115>>,
     <<72, 105, 103, 104, 45, 73, 110, 116, 101, 110, 115, 105, 116, 121, 32, 73, 110, 116,
       101, 114, 118, 97, 108, 32, 84, 114, 97, 105, 110, 105, 110, 103, 32, 40, 72, 73,
       73, 84, 41>>,
     <<83, 112, 101, 101, 100, 32, 38, 32, 65, 103, 105, 108, 105, 116, 121, 32, 84, 114,
       97, 105, 110, 105, 110, 103>>,
     <<67, 111, 114, 114, 101, 99, 116, 105, 118, 101, 32, 69, 120, 101, 114, 99, 105, 115,
       101, 32, 47, 32, 80, 111, 115, 116, 117, 114, 97, 108, 32, 65, 108, 105, 103, 110,
       109, 101, 110, 116>>,
     <<80, 111, 112, 117, 108, 97, 116, 105, 111, 110, 45, 83, 112, 101, 99, 105, 102, 105,
       99, 32, 84, 114, 97, 105, 110, 105, 110, 103>>,
     <<89, 111, 117, 116, 104, 32, 70, 105, 116, 110, 101, 115, 115>>,
     <<83, 101, 110, 105, 111, 114, 32, 70, 105, 116, 110, 101, 115, 115>>,
     <<80, 114, 101, 45, 110, 97, 116, 97, 108, 32, 38, 32, 80, 111, 115, 116, 45, 110, 97,
       116, 97, 108, 32, 84, 114, 97, 105, 110, 105, 110, 103>>,
     <<65, 100, 97, 112, 116, 105, 118, 101, 32, 70, 105, 116, 110, 101, 115, 115>>,
     <<67, 104, 114, 111, 110, 105, 99, 32, 67, 111, 110, 100, 105, 116, 105, 111, 110,
       115>>,
     <<80, 111, 115, 116, 45, 82, 101, 104, 97, 98, 105, 108, 105, 116, 97, 116, 105, 111,
       110, 32, 47, 32, 73, 110, 106, 117, 114, 121, 32, 82, 101, 99, 111, 118, 101, 114,
       121>>,
     <<65, 116, 104, 108, 101, 116, 105, 99, 32, 38, 32, 83, 112, 111, 114, 116, 45, 83,
       112, 101, 99, 105, 102, 105, 99>>,
     <<83, 112, 111, 114, 116, 115, 32, 80, 101, 114, 102, 111, 114, 109, 97, 110, 99, 101,
       32, 67, 111, 97, 99, 104, 105, 110, 103>>,
     <<80, 111, 119, 101, 114, 108, 105, 102, 116, 105, 110, 103, 32, 67, 111, 97, 99, 104,
       105, 110, 103>>,
     <<79, 108, 121, 109, 112, 105, 99, 32, 87, 101, 105, 103, 104, 116, 108, 105, 102,
       116, 105, 110, 103>>,
     <<67, 114, 111, 115, 115, 70, 105, 116, 32, 83, 112, 101, 99, 105, 97, 108, 116, 121,
       32, 67, 111, 97, 99, 104, 105, 110, 103>>,
     <<67, 111, 109, 98, 97, 116, 32, 83, 112, 111, 114, 116, 115, 32, 67, 111, 110, 100,
       105, 116, 105, 111, 110, 105, 110, 103>>,
     <<82, 117, 110, 110, 105, 110, 103, 32, 38, 32, 69, 110, 100, 117, 114, 97, 110, 99,
       101, 32, 67, 111, 97, 99, 104, 105, 110, 103>>,
     <<72, 101, 97, 108, 116, 104, 32, 38, 32, 87, 101, 108, 108, 110, 101, 115, 115, 32,
       73, 110, 116, 101, 103, 114, 97, 116, 105, 111, 110>>,
     <<83, 116, 114, 101, 115, 115, 32, 77, 97, 110, 97, 103, 101, 109, 101, 110, 116, 32,
       38, 32, 77, 105, 110, 100, 45, 66, 111, 100, 121, 32, 84, 114, 97, 105, 110, 105,
       110, 103>>,
     <<72, 111, 108, 105, 115, 116, 105, 99, 32, 70, 105, 116, 110, 101, 115, 115>>,
     <<78, 105, 99, 104, 101, 32, 38, 32, 76, 105, 102, 101, 115, 116, 121, 108, 101, 45,
       79, 114, 105, 101, 110, 116, 101, 100>>,
     <<79, 110, 108, 105, 110, 101, 32, 47, 32, 86, 105, 114, 116, 117, 97, 108, 32, 70,
       105, 116, 110, 101, 115, 115, 32, 67, 111, 97, 99, 104, 105, 110, 103>>,
     <<79, 117, 116, 100, 111, 111, 114, 32, 47, 32, 65, 100, 118, 101, 110, 116, 117, 114,
       101, 32, 84, 114, 97, 105, 110, 105, 110, 103>>,
     <<87, 111, 114, 107, 112, 108, 97, 99, 101, 32, 47, 32, 67, 111, 114, 112, 111, 114,
       97, 116, 101, 32, 87, 101, 108, 108, 110, 101, 115, 115>>,
     <<71, 114, 111, 117, 112, 32, 70, 105, 116, 110, 101, 115, 115, 32, 76, 101, 97, 100,
       101, 114, 115, 104, 105, 112>>,
     <<77, 105, 108, 105, 116, 97, 114, 121, 32, 47, 32, 84, 97, 99, 116, 105, 99, 97, 108,
       32, 70, 105, 116, 110, 101, 115, 115>>}

\* value.split(sep) for a separator of one character
RECURSIVE SplitOn(_, _)
SplitOn(value, sep) ==
    IF \E i \in 1..Len(value) : value[i] = sep
    THEN LET i == CHOOSE i \in 1..Len(value) :
                      value[i] = sep /\ \A j \in 1..(i - 1) : value[j] # sep
         IN  <<SubSeq(value, 1, i - 1)>> \o SplitOn(SubSeq(value, i + 1, Len(value)), sep)
    ELSE <<value>>

\* value.split(",")
SplitCommas(value) == SplitOn(value, 44)

\* [part.strip() for part in value.split(",") if part.strip()]
Parts(value) ==
    SelectSeq([i \in 1..Len(SplitCommas(value)) |-> Strip(SplitCommas(value)[i])],
              LAMBDA part : part # <<>>)

InSeq(x, seq) == \E i \in 1..Len(seq) : seq[i] = x

\* lines 23-27 on one part; acc is [selected, invalid]
TakePart(acc, part) ==
    IF part \in Speciality
    THEN IF InSeq(part, acc.selected) THEN acc
         ELSE [acc EXCEPT !.selected = Append(@, part)]
    ELSE [acc EXCEPT !.invalid = Append(@, part)]

RECURSIVE TakeParts(_, _)
TakeParts(acc, parts) ==
    IF parts = <<>> THEN acc ELSE TakeParts(TakePart(acc, Head(parts)), Tail(parts))

\* the loop over raw_values
RECURSIVE TakeValues(_, _)
TakeValues(acc, raw_values) ==
    IF raw_values = <<>> THEN acc
    ELSE TakeValues(IF Head(raw_values) = <<>> THEN acc
                    ELSE TakeParts(acc, Parts(Head(raw_values))),
                    Tail(raw_values))

_parse_specialities(raw_values) ==
    TakeValues([selected |-> <<>>, invalid |-> <<>>], raw_values)

MaxRawValues == 3

S_Invalid == <<73, 110, 118, 97, 108, 105, 100>>

\* three enum values, one of them the one with a comma, blank values, a value
\* that is no speciality, a padded one and a comma-separated list
RawSpecialities ==
    {WEIGHT_LOSS, MUSCLE_HYPERTROPHY, ENDURANCE_TRAINING, <<>>, <<32, 32>>, S_Invalid,
     <<32>> \o MUSCLE_HYPERTROPHY \o <<32>>,
     WEIGHT_LOSS \o <<44, 32>> \o NUTRITION_COACHING \o <<44>>}

InitSpecialities ==
    /\ pc = "specialities"
    /\ args \in UNION {[1..k -> RawSpecialities] : k \in 0..MaxRawValues}
    /\ returned = <<>>
    /\ hasApi = FALSE
    /\ idx = 1
    /\ locCache = <<>>
    /\ hazCache = <<>>
    /\ trace = <<>>
    /\ files = {}
    /\ NoRun

\* selected, invalid = _parse_specialities(requested_values)
ParseSpecialities ==
    /\ pc = "specialities"
    /\ returned = <<>>
    /\ returned' = <<_parse_specialities(args)>>
    /\ UNCHANGED <<pc, idx, locCache, hazCache, trace, args, files>>
    /\ UNCHANGED <<runVars, boundaryVars>>

SpecSpecialities == InitSpecialities /\ [][ParseSpecialities]_vars

-----------------------------------------------------------------------------
(* The hazard containment query: HazardViewSet.list over the stored         *)
(* presentations.  A stored presentation is a record [hazard_id, center,    *)
(* radius_meters, boundary], center a Point and boundary a JSON value; its  *)
(* primary key is its position.  Coordinates are whole degrees.             *)

Point(latitude, longitude) == [latitude |-> latitude, longitude |-> longitude]

\* a lower bound in meters of the haversine distance of two different points
\* of whole degrees within 10 degrees of the equator (one degree of longitude
\* at latitude 10 is 109.6 km); the radii of the model are below it
FarApart == 100000

\* EARTH_RADIUS_METERS * c of lines 68-77
Distance(point, center) == IF point = center THEN 0 ELSE FarApart

point_within_circle(point, center, radius_meters) ==
    IF radius_meters <= 0 THEN FALSE ELSE Distance(point, center) <= radius_meters

\* lines 139-143 for the edge from polygon[j] to polygon[i]: whether the ray
\* from the point crosses it.  intersect_x > x is decided on
\* n / (d + 1e-12) > r with n = (xj - xi) * (y - yi), d = yj - yi, r = x - xi,
\* all integers: by n and r * d when these differ, and when they are equal
\* (the point is on the line of the edge) by what the 1e-12 does to the
\* quotient, which makes it greater exactly when n < 0
Crosses(pi, pj, point) ==
    /\ (pi.latitude > point.latitude) # (pj.latitude > point.latitude)
    /\ LET n == (pj.longitude - pi.longitude) * (point.latitude - pi.latitude)
           d == pj.latitude - pi.latitude
           r == point.longitude - pi.longitude
       IN  IF n = r * d THEN n < 0
           ELSE IF d > 0 THEN n > r * d
           ELSE n < r * d

\* polygon[(i - 1) % num_vertices]
Previous(polygon, i) == polygon[IF i = 1 THEN Len(polygon) ELSE i - 1]

\* ray casting: inside after an odd number of crossings
_point_in_polygon(polygon, point) ==
    Cardinality({i \in 1..Len(polygon) : Crosses(polygon[i], Previous(polygon, i), point)}) % 2 = 1

point_within_boundary(boundary, point) ==
    \E k \in 1..Len(boundary) : _point_in_polygon(boundary[k], point)

\* lines 118-121 on the outcome of normalized_boundary()
InsideNormalized(normalized, point) ==
    IF normalized[1] = "raise" THEN normalized
    ELSE IF normalized[2] # <<>> THEN Ok(point_within_boundary(normalized[2], point))
    ELSE Ok(FALSE)

\* HazardPresentation.contains: Ok(bool) or the exception of normalize_boundary
contains(self, point) ==
    IF point_within_circle(point, self.center, self.radius_meters) THEN Ok(TRUE)
    ELSE InsideNormalized(geometry_normalize_boundary(self.boundary), point)

\* the except clause of the loop in list
Caught_any(kind) == TRUE

Caught(kind) == kind = "ValueError"

\* the loop over the presentations from position n on; matched holds the
\* positions of the presentations that contain the point
\* one iteration on the outcome of contains: an exception that the except
\* clause lets through ends the loop (position 0), a match is recorded
MatchStep(matched, n, found) ==
    IF found[1] = "raise" /\ ~Caught(found[2]) THEN [at |-> 0, matched |-> found]
    ELSE [at |-> n + 1, matched |-> IF found = Ok(TRUE) THEN Append(matched, n) ELSE matched]

RECURSIVE MatchLoop(_, _, _)
MatchLoop(presentations, point, step) ==
    IF step.at = 0 THEN step.matched
    ELSE IF step.at > Len(presentations) THEN Ok(step.matched)
    ELSE MatchLoop(presentations, point,
                   MatchStep(step.matched, step.at, contains(presentations[step.at], point)))

MatchFrom(presentations, point, n, matched) ==
    MatchLoop(presentations, point, [at |-> n, matched |-> matched])

\* the hazards in Meta.ordering (name)
StoredHazards == <<[id |-> 2, name |-> S_A], [id |-> 1, name |-> S_B], [id |-> 3, name |-> S_G]>>

\* lines 144-161: the hazards that have a matched presentation, each with
\* the positions of its matched presentations
PresentationsOf(presentations, matched, hazard) ==
    SelectSeq(matched, LAMBDA n : presentations[n].hazard_id = hazard.id)

Matched(presentations, matched) ==
    SelectSeq(StoredHazards, LAMBDA h : PresentationsOf(presentations, matched, h) # <<>>)

Payload(presentations, matched) ==
    [k \in 1..Len(Matched(presentations, matched)) |->
        [id |-> Matched(presentations, matched)[k].id,
         presentations |-> PresentationsOf(presentations, matched,
                                           Matched(presentations, matched)[k])]]

\* lines 125-133: the latitude and longitude query parameters
BadParams(latitude, longitude) ==
    \/ IsNone(Get(latitude)) \/ IsNone(Get(longitude))
    \/ ~IsNum(latitude) \/ ~IsNum(longitude)

\* lines 144-163 on the outcome of the loop
Respond(presentations, matched) ==
    IF matched[1] = "raise" THEN matched ELSE Ok(Payload(presentations, matched[2]))

HazardViewSet_list(latitude, longitude, presentations) ==
    IF BadParams(latitude, longitude) THEN Raise("ValidationError")
    ELSE Respond(presentations,
                 MatchFrom(presentations, Point(latitude[2], longitude[2]), 1, <<>>))

MaxPresentations == 2

Presentation(hazard_id, lat, lng, radius_meters, boundary) ==
    [hazard_id |-> hazard_id, center |-> Point(lat, lng), radius_meters |-> radius_meters,
     boundary |-> boundary]

\* the triangle (0, 0), (4, 0), (0, 4): (1, 1) is inside, (3, 3) is not
Corner(lat, lng) == JPoint(JNum(lat), JNum(lng))

Pair(lat, lng) == JList(<<JNum(lat), JNum(lng)>>)

\* presentations that reach (1, 1) by their circle, by a polygon in each of
\* the encodings, or not at all; one with radius 0; and boundaries on which
\* normalize_boundary raises ValueError (two points), TypeError (a ring of two
\* pairs) and KeyError (a MultiPolygon of a point)
StoredPresentations ==
    {Presentation(1, 1, 1, 1000, JList(<<>>)),
     Presentation(1, 6, 6, 1000, JList(<<Corner(0, 0), Corner(4, 0), Corner(0, 4)>>)),
     Presentation(2, 6, 6, 1000, JList(<<JList(<<Pair(0, 0), Pair(4, 0), Pair(0, 4)>>)>>)),
     Presentation(2, 6, 6, 1000,
                  JGeo("Polygon", JList(<<JList(<<Pair(0, 0), Pair(4, 0), Pair(0, 4)>>)>>))),
     Presentation(2, 1, 1, 0, JList(<<>>)),
     Presentation(2, 3, 3, 1000, None),
     Presentation(2, 6, 6, 1000, JList(<<Corner(0, 0), Corner(4, 0)>>)),
     Presentation(1, 6, 6, 1000, JList(<<JList(<<Pair(1, 1), Pair(2, 1)>>)>>)),
     Presentation(1, 1, 1, 1000, JList(<<JList(<<Pair(1, 1), Pair(2, 1)>>)>>)),
     Presentation(1, 6, 6, 1000, JGeo("MultiPolygon", JList(<<Corner(1, 1)>>)))}

\* the query parameters: (1, 1), (3, 3), and a latitude that is no number
QueryParams == {<<JNum(1), JNum(1)>>, <<JNum(3), JNum(3)>>, <<JStr(S_x), JNum(1)>>, <<Absent, JNum(1)>>}

InitContains ==
    /\ pc = "contains"
    /\ \E params \in QueryParams :
          \E presentations \in UNION {[1..k -> StoredPresentations] : k \in 0..MaxPresentations} :
             args = [latitude |-> params[1], longitude |-> params[2],
                     presentations |-> presentations]
    /\ returned = <<>>
    /\ hasApi = FALSE
    /\ idx = 1
    /\ locCache = <<>>
    /\ hazCache = <<>>
    /\ trace = <<>>
    /\ files = {}
    /\ NoRun

\* GET /hazards/?latitude=..&longitude=..
ListHazards ==
    /\ pc = "contains"
    /\ returned = <<>>
    /\ returned' = <<HazardViewSet_list(args.latitude, args.longitude, args.presentations)>>
    /\ UNCHANGED <<pc, idx, locCache, hazCache, trace, args, files>>
    /\ UNCHANGED <<runVars, boundaryVars>>

SpecContains == InitContains /\ [][ListHazards]_vars

-----------------------------------------------------------------------------
(* scraper/downloader.py.  A URL is given by what urlparse makes of it, a   *)
(* record [netloc, path, query] of str; a path under output_dir is the      *)
(* sequence of its components; an entry of `files` is a record              *)
(* [path, dir, text], dir telling a directory from a file.                  *)

S_html == <<104, 116, 109, 108>>

S_index == <<105, 110, 100, 101, 120>>

S_resource == <<114, 101, 115, 111, 117, 114, 99, 101>>

S_unknown_host == <<117, 110, 107, 110, 111, 119, 110, 45, 104, 111, 115, 116>>

\* [A-Za-z0-9._-]
Safe(c) == c \in (48..57) \cup (65..90) \cup (97..122) \cup {45, 46, 95}

\* re.sub(r"[^A-Za-z0-9._-]+", "-", ...) followed by re.sub(r"-+", "-", ...):
\* every other character becomes a dash and a run of dashes one dash
RECURSIVE Dashed(_)
Dashed(s) ==
    IF s = <<>> THEN <<>>
    ELSE LET c == IF Safe(Head(s)) THEN Head(s) ELSE 45
             rest == Dashed(Tail(s))
         IN  IF c = 45 /\ rest # <<>> /\ Head(rest) = 45 THEN rest ELSE <<c>> \o rest

\* str.strip("-")
RECURSIVE StripDashes(_)
StripDashes(s) ==
    IF s # <<>> /\ Head(s) = 45 THEN StripDashes(Tail(s))
    ELSE IF s # <<>> /\ s[Len(s)] = 45 THEN StripDashes(SubSeq(s, 1, Len(s) - 1))
    ELSE s

sanitize_component(component) ==
    IF StripDashes(Dashed(Strip(component))) # <<>>
    THEN StripDashes(Dashed(Strip(component)))
    ELSE S_resource

\* the position of the last dot of a file name, 0 if it has none
LastDot(filename) ==
    IF \E i \in 1..Len(filename) : filename[i] = 46
    THEN CHOOSE i \in 1..Len(filename) :
             filename[i] = 46 /\ \A j \in (i + 1)..Len(filename) : filename[j] # 46
    ELSE 0

\* filename.rsplit(".", 1)[0]
Stem(filename) ==
    IF LastDot(filename) = 0 THEN filename ELSE SubSeq(filename, 1, LastDot(filename) - 1)

Suffix(filename) ==
    IF LastDot(filename) = 0 THEN S_html
    ELSE SubSeq(filename, LastDot(filename) + 1, Len(filename))

\* stands for the first ten hex digits of the SHA-256 of the query: equal for
\* equal queries and different for different ones
Digest(query) == <<35>> \o query

\* lines 56-62
NewFilename(filename, query) ==
    Stem(filename) \o (IF query # <<>> THEN <<45>> \o Digest(query) ELSE <<>>)
    \o <<46>> \o Suffix(filename)

\* lines 53-55: the sanitized non-empty parts of the path, or ["index"]
PathParts(url_path) ==
    LET given == SelectSeq(SplitOn(url_path, 47), LAMBDA part : part # <<>>) IN
    IF given = <<>> THEN <<S_index>>
    ELSE [i \in 1..Len(given) |-> sanitize_component(given[i])]

\* output_dir.joinpath(*relative_parts), relative to output_dir: joinpath
\* drops the components '.'
PathOf(hostname, parts, query) ==
    SelectSeq(<<hostname>> \o SubSeq(parts, 1, Len(parts) - 1)
              \o <<NewFilename(parts[Len(parts)], query)>>,
              LAMBDA part : part # <<46>>)

build_document_path(url) ==
    PathOf(sanitize_component(IF url.netloc # <<>> THEN url.netloc ELSE S_unknown_host),
           PathParts(url.path), url.query)

\* Path.exists()
Exists(fs, path) == \E f \in fs : f.path = path

IsFile(fs, path) == \E f \in fs : f.path = path /\ ~f.dir

Parents(path) == {SubSeq(path, 1, k) : k \in 1..(Len(path) - 1)}

\* ensure_directory raises (FileExistsError or NotADirectoryError, both
\* OSError) when a parent of the path is a file
MkdirRaises(fs, path) == \E p \in Parents(path) : IsFile(fs, p)

\* path.parent.mkdir(parents=True, exist_ok=True)
ensure_directory(fs, path) ==
    fs \cup {[path |-> p, dir |-> TRUE, text |-> <<>>] : p \in {q \in Parents(path) : ~Exists(fs, q)}}

DownloadResult(url, path, skipped, error) ==
    [url |-> url, path |-> path, skipped |-> skipped, error |-> error]

\* what a call leaves: the files, the events and the result or the exception
Left(fs, events, result) == [files |-> fs, events |-> events, result |-> result]

\* lines 83-93 on the outcome of the request, Fail for a RequestException
Fetched(fs, url, target, response) ==
    IF response = Fail
    THEN Left(fs, <<Event("get", url), Event("failed", url)>>,
              Ok(DownloadResult(url, <<>>, FALSE, TRUE)))
    ELSE Left(fs \cup {[path |-> target, dir |-> FALSE, text |-> response[2]]},
              <<Event("get", url), Event("wrote", url)>>,
              Ok(DownloadResult(url, <<target>>, FALSE, FALSE)))

\* lines 77-81 on the target path
DownloadTo(fs, url, target, response) ==
    IF Exists(fs, target)
    THEN Left(fs, <<Event("skip", url)>>, Ok(DownloadResult(url, <<target>>, TRUE, FALSE)))
    ELSE IF MkdirRaises(fs, target) THEN Left(fs, <<Event("raised", url)>>, Raise("OSError"))
    ELSE Fetched(ensure_directory(fs, target), url, target, response)

download_url(fs, url, response) == DownloadTo(fs, url, build_document_path(url), response)

\* the list comprehension of download_many from position n on: an exception
\* ends it
RECURSIVE DownloadFrom(_, _, _, _, _, _)
DownloadFrom(fs, urls, responses, n, events, results) ==
    IF n > Len(urls) THEN Left(fs, events, Ok(results))
    ELSE LET one == download_url(fs, urls[n], responses[n]) IN
         IF one.result[1] = "raise" THEN Left(one.files, events \o one.events, one.result)
         ELSE DownloadFrom(one.files, urls, responses, n + 1, events \o one.events,
                           Append(results, one.result[2]))

download_many(fs, urls, responses) == DownloadFrom(fs, urls, responses, 1, <<>>, <<>>)

MaxRuns == 2

MaxUrls == 2

Url(netloc, path, query) == [netloc |-> netloc, path |-> path, query |-> query]

S_host == <<104>>

\* http://h/a, http://h/a.html, http://h/a.html/b and http://h/c?x
Urls ==
    {Url(S_host, <<47, 97>>, <<>>), Url(S_host, <<47, 97>> \o <<46>> \o S_html, <<>>),
     Url(S_host, <<47, 97>> \o <<46>> \o S_html \o <<47, 98>>, <<>>),
     Url(S_host, <<47, 99>>, S_x)}

\* a failed request and two pages
Responses == {Fail, Data(S_c), Data(S_d)}

InitDownload ==
    /\ pc = "download"
    /\ files = {}
    /\ trace = <<>>
    /\ args = <<>>
    /\ returned = <<>>
    /\ idx = 1
    /\ hasApi = FALSE
    /\ locCache = <<>>
    /\ hazCache = <<>>
    /\ NoRun

\* what a call leaves in the state
Leave(left, urls) ==
    /\ files' = left.files
    /\ trace' = trace \o left.events
    /\ args' = urls
    /\ returned' = <<left.result>>
    /\ idx' = idx + 1
    /\ UNCHANGED <<pc, locCache, hazCache>>
    /\ UNCHANGED <<runVars, boundaryVars>>

\* download_url(url, output_dir)
DownloadUrl ==
    /\ pc = "download"
    /\ idx <= MaxRuns
    /\ \E url \in Urls, response \in Responses :
          Leave(download_many(files, <<url>>, <<response>>), <<url>>)

\* download_many(urls, output_dir) on two urls or more
DownloadMany ==
    /\ pc = "download"
    /\ idx <= MaxRuns
    /\ \E k \in 2..MaxUrls :
          \E urls \in [1..k -> Urls], responses \in [1..k -> Responses] :
             Leave(download_many(files, urls, responses), urls)

NextDownload == DownloadUrl \/ DownloadMany

SpecDownload == InitDownload /\ [][NextDownload]_vars

-----------------------------------------------------------------------------
(* What the documents say, read off the documents themselves *)

\* the documents the run has ingested so far
Ingested == IF pc = "ingest" THEN SubSeq(docs, 1, idx - 1) ELSE docs

\* a str with something other than whitespace in it
NonBlank(v) == IsStr(v) /\ Strip(v[2]) # <<>>

\* trimmed and lower-cased
Folded(s) == LowerStr(Strip(s))

RECURSIVE Concat(_)
Concat(ss) == IF ss = <<>> THEN <<>> ELSE Head(ss) \o Concat(Tail(ss))

IsObject(r) == r.obj

NamedObject(r) == r.obj /\ NonBlank(r.name)

Refers(p) == p.obj /\ NonBlank(p.location)

ObjectsOf(ds) == SelectSeq(ds, IsObject)

\* the location fragments with a name, in document order
LocationFragmentsIn(ds) ==
    Concat([i \in 1..Len(ObjectsOf(ds)) |-> SelectSeq(ObjectsOf(ds)[i].locations, NamedObject)])

\* the hazard fragments that are objects, in document order
HazardObjectsIn(ds) ==
    Concat([i \in 1..Len(ObjectsOf(ds)) |-> SelectSeq(ObjectsOf(ds)[i].hazards, IsObject)])

\* the hazard fragments with a name, in document order
HazardFragmentsIn(ds) == SelectSeq(HazardObjectsIn(ds), NamedObject)

\* the presentation fragments of a hazard fragment, each with the name its
\* hazard fragment gives
LinksOf(h) ==
    [i \in 1..Len(SelectSeq(h.presentations, Refers)) |->
        [hazard |-> h.name, fragment |-> SelectSeq(h.presentations, Refers)[i]]]

\* the presentation fragments under the named hazard fragments
LinksIn(ds) == Concat([i \in 1..Len(HazardFragmentsIn(ds)) |-> LinksOf(HazardFragmentsIn(ds)[i])])

\* the presentation fragments under every hazard fragment, named or not
AllLinksIn(ds) == Concat([i \in 1..Len(HazardObjectsIn(ds)) |-> LinksOf(HazardObjectsIn(ds)[i])])

\* the names by which one document mentions locations, in the order of the
\* document: its location fragments, then the presentations of its hazards
LocationNamesOfDoc(d, links(_)) ==
    [i \in 1..Len(LocationFragmentsIn(<<d>>)) |-> LocationFragmentsIn(<<d>>)[i].name[2]]
    \o [i \in 1..Len(links(<<d>>)) |-> links(<<d>>)[i].fragment.location[2]]

LocationNamesIn(ds, links(_)) ==
    Concat([i \in 1..Len(ObjectsOf(ds)) |-> LocationNamesOfDoc(ObjectsOf(ds)[i], links)])

HazardNamesIn(ds) == [i \in 1..Len(HazardFragmentsIn(ds)) |-> HazardFragmentsIn(ds)[i].name[2]]

\* the first name of a sequence that folds to this key
FirstSpelling(names, key) ==
    names[CHOOSE i \in 1..Len(names) :
            /\ Folded(names[i]) = key
            /\ \A j \in 1..(i - 1) : Folded(names[j]) # key]

\* a map holds exactly one entity per folded name of the sequence, each
\* displayed under the trimmed first spelling
OnePerName(entries, names) ==
    /\ KeysOf(entries) = {Folded(names[i]) : i \in 1..Len(names)}
    /\ \A i, j \in 1..Len(entries) : entries[i].key = entries[j].key => i = j
    /\ \A i \in 1..Len(entries) :
          entries[i].name = Strip(FirstSpelling(names, entries[i].key))

-----------------------------------------------------------------------------
(* C1 *)

\* C1 as stated: once Ingest is through a sequence of documents, the hazard
\* map and the location map hold exactly one entity per distinct trimmed,
\* lower-cased name found non-blank in a hazard fragment, a location fragment
\* or the 'location' of any presentation fragment, displayed under the
\* trimmed name of the first fragment that mentions it.
C1_OnePerMentionedName ==
    pc # "raised" =>
        /\ OnePerName(hazards, HazardNamesIn(Ingested))
        /\ OnePerName(locations, LocationNamesIn(Ingested, AllLinksIn))

\* C1 amended: the same, the presentation fragments being those of the hazard
\* fragments that themselves carry a non-blank name (a hazard fragment
\* without one is skipped together with its presentations).
C1_OnePerNameOfNamedFragments ==
    pc # "raised" =>
        /\ OnePerName(hazards, HazardNamesIn(Ingested))
        /\ OnePerName(locations, LocationNamesIn(Ingested, LinksIn))

\* C1 witness: the run is over and one location was mentioned under two
\* spellings, by a location fragment and by a presentation.
C1_Witness ==
    /\ pc = "done"
    /\ \E i \in 1..Len(locations) :
          /\ \E j \in 1..Len(LocationFragmentsIn(docs)) :
                /\ Folded(LocationFragmentsIn(docs)[j].name[2]) = locations[i].key
                /\ Strip(LocationFragmentsIn(docs)[j].name[2]) # locations[i].name
          /\ \E j \in 1..Len(LinksIn(docs)) :
                Folded(LinksIn(docs)[j].fragment.location[2]) = locations[i].key

-----------------------------------------------------------------------------
(* C2 *)

\* the value is a str that trims and lower-cases to a member of the set
Allowed(v, allowed) == IsStr(v) /\ Folded(v[2]) \in allowed

\* the first value of the sequence that is allowed, folded; None if none is
FirstAllowed(values, allowed) ==
    IF \A i \in 1..Len(values) : ~Allowed(values[i], allowed) THEN None
    ELSE JStr(Folded(values[CHOOSE i \in 1..Len(values) :
                                /\ Allowed(values[i], allowed)
                                /\ \A j \in 1..(i - 1) : ~Allowed(values[j], allowed)][2]))

\* the named hazard fragments of these documents that fold to this key
FragmentsOfHazard(ds, key) ==
    LET same(h) == Folded(h.name[2]) = key IN SelectSeq(HazardFragmentsIn(ds), same)

SeveritiesOf(ds, key) ==
    [i \in 1..Len(FragmentsOfHazard(ds, key)) |-> Get(FragmentsOfHazard(ds, key)[i].severity)]

TypesOf(ds, key) ==
    [i \in 1..Len(FragmentsOfHazard(ds, key)) |-> Get(FragmentsOfHazard(ds, key)[i].type)]

\* C2: whatever prefix of the documents has been ingested (and from then on,
\* with no catalog), the severity of every hazard is the trimmed, lower-cased
\* value of the first fragment of that hazard, in document order, whose
\* severity is one of low, medium, high, and None if there is no such
\* fragment; likewise its type with animal, event, weather, disease.  Holding
\* for every prefix, the value once set survives every later document and an
\* unknown value neither sets it nor blocks a later one.
C2_FirstAllowedValueWins ==
    pc # "raised" =>
        \A i \in 1..Len(hazards) :
            /\ hazards[i].severity
                 = FirstAllowed(SeveritiesOf(Ingested, hazards[i].key), HAZARD_SEVERITIES)
            /\ hazards[i].type
                 = FirstAllowed(TypesOf(Ingested, hazards[i].key), HAZARD_TYPES)

\* C2 witness: a hazard whose first fragment gave an unknown severity and
\* whose second fragment gave an allowed one, which it has taken; and a
\* hazard with two different allowed severities, which has the first.
C2_Witness ==
    /\ pc = "done"
    /\ \E i \in 1..Len(hazards) :
          LET values == SeveritiesOf(docs, hazards[i].key) IN
          /\ Len(values) = 2
          /\ \/ /\ IsStr(values[1]) /\ ~Allowed(values[1], HAZARD_SEVERITIES)
                /\ Allowed(values[2], HAZARD_SEVERITIES)
                /\ hazards[i].severity = JStr(Folded(values[2][2]))
             \/ /\ Allowed(values[1], HAZARD_SEVERITIES)
                /\ Allowed(values[2], HAZARD_SEVERITIES)
                /\ Folded(values[1][2]) # Folded(values[2][2])
                /\ hazards[i].severity = JStr(Folded(values[1][2]))

-----------------------------------------------------------------------------
(* C3 and C4 *)

\* the presentation fragments that link this hazard to this location
LinksOfPair(ds, location_key, hazard_key) ==
    LET same(l) == /\ Folded(l.fragment.location[2]) = location_key
                   /\ Folded(l.hazard[2]) = hazard_key
    IN  SelectSeq(LinksIn(ds), same)

\* the note text of a presentation fragment: its 'notes', or its
\* 'description' when 'notes' is absent, null or empty
NoteText(p) == IF Truthy(Get(p.notes)) THEN Get(p.notes) ELSE Get(p.description)

\* the distinct trimmed non-blank note texts of a sequence of links
NoteTexts(links) ==
    {Strip(NoteText(links[i].fragment)[2]) :
        i \in {j \in 1..Len(links) : NonBlank(NoteText(links[j].fragment))}}

\* one string as itself, several as an ascending array, none as nothing
Rendered(texts) ==
    IF texts = {} THEN Absent
    ELSE IF Cardinality(texts) = 1 THEN JStr(CHOOSE s \in texts : TRUE)
    ELSE JList([i \in 1..Cardinality(texts) |->
                  JStr(CHOOSE s \in texts :
                          Cardinality({r \in texts : StrLess(r, s)}) = i - 1)])

\* the emitted presentations, each with the location it is emitted on
Emitted ==
    UNION {{<<l, p>> : p \in 1..Len(output[1].locations[l].presentations)} :
              l \in 1..Len(output[1].locations)}

\* C3: in the emitted payload (no catalog, every hazard has an id), every
\* pair of a location and a hazard that some presentation fragment links has
\* one presentation, and its notes are the set of distinct trimmed non-blank
\* note texts of all the fragments, of every document, that link the pair:
\* one string if the set has one element, the ascending array if more,
\* nothing if none.
C3_NotesAreTheSetOfAllNoteTexts ==
    pc = "done" =>
        /\ \A k \in 1..Len(LinksIn(docs)) :
              \E e \in Emitted :
                 /\ Folded(output[1].locations[e[1]].name)
                      = Folded(LinksIn(docs)[k].fragment.location[2])
                 /\ Folded(output[1].locations[e[1]].presentations[e[2]].hazard_name)
                      = Folded(LinksIn(docs)[k].hazard[2])
        /\ \A e \in Emitted :
              output[1].locations[e[1]].presentations[e[2]].notes
                = Rendered(NoteTexts(LinksOfPair(docs,
                      Folded(output[1].locations[e[1]].name),
                      Folded(output[1].locations[e[1]].presentations[e[2]].hazard_name))))

\* C3 witness: a presentation emitted with an array of two notes that came
\* from two documents.
C3_Witness ==
    /\ pc = "done"
    /\ Len(docs) = 2
    /\ \E e \in Emitted :
          LET notes == output[1].locations[e[1]].presentations[e[2]].notes IN
          /\ IsList(notes)
          /\ Len(notes[2]) = 2
          /\ Len(LinksIn(<<docs[1]>>)) = 1
          /\ Len(LinksIn(<<docs[2]>>)) = 1

\* the first non-empty normalized boundary of a sequence of links
FirstBoundary(links) ==
    IF \A i \in 1..Len(links) : normalize_boundary(Get(links[i].fragment.boundary)) = <<>>
    THEN <<>>
    ELSE normalize_boundary(Get(links[CHOOSE i \in 1..Len(links) :
            /\ normalize_boundary(Get(links[i].fragment.boundary)) # <<>>
            /\ \A j \in 1..(i - 1) :
                  normalize_boundary(Get(links[j].fragment.boundary)) = <<>>].fragment.boundary))

\* C4: whatever prefix of the documents has been ingested, the boundary of
\* every presentation of every location is the normalized boundary of the
\* first fragment linking that hazard to that location, in document order,
\* whose boundary normalizes to a non-empty polygon (empty if there is none).
\* Holding for every prefix, a later boundary never replaces it and an earlier
\* absent or unusable one does not block it.
C4_FirstBoundaryWins ==
    pc # "raised" =>
        \A i \in 1..Len(locations) :
            \A j \in 1..Len(locations[i].presentations) :
                locations[i].presentations[j].boundary
                  = FirstBoundary(LinksOfPair(Ingested, locations[i].key,
                                              locations[i].presentations[j].key))

\* C4 witness: a presentation that two fragments with a boundary contributed
\* to, where either the first was unusable and the second was taken, or both
\* were usable and different and the first was kept.
C4_Witness ==
    /\ pc = "done"
    /\ \E i \in 1..Len(locations) :
          \E j \in 1..Len(locations[i].presentations) :
             LET links == LinksOfPair(docs, locations[i].key, locations[i].presentations[j].key)
                 first == normalize_boundary(Get(links[1].fragment.boundary))
                 second == normalize_boundary(Get(links[2].fragment.boundary))
             IN  /\ Len(links) = 2
                 /\ Truthy(Get(links[1].fragment.boundary))
                 /\ second # <<>>
                 /\ first # second
                 /\ locations[i].presentations[j].boundary
                      = (IF first = <<>> THEN second ELSE first)

-----------------------------------------------------------------------------
(* C5 *)

\* the stage an event of the trace belongs to
StageOf(op) ==
    CASE op = "ingest" -> 1
      [] op \in {"find_location", "http_location", "find_hazard", "http_hazard",
                 "lookup_failed"} -> 2
      [] op = "hydrate" -> 3
      [] op = "assign" -> 4
      [] OTHER -> 5

\* the positions of the trace before position n that hold this event
Before(n, op, key) == {i \in 1..(n - 1) : trace[i] = Event(op, key)}

Positions(op) == {i \in 1..Len(trace) : trace[i].op = op}

\* C5: the events of a run never step back to an earlier stage (Ingest,
\* Resolve, Hydrate, Assign, Emit); a catalog lookup comes after one ingest
\* per document; a hydrate call comes, when a catalog is configured, after
\* the lookup of every location and of every hazard; the assignment comes
\* after the hydrate call of every location; no location is hydrated twice,
\* and once Hydrate is over every location has been hydrated exactly once.
C5_StagesInOrder ==
    /\ \A i, j \in 1..Len(trace) : i < j => StageOf(trace[i].op) <= StageOf(trace[j].op)
    /\ \A n \in 1..Len(trace) :
          /\ StageOf(trace[n].op) = 2 =>
                Cardinality(Before(n, "ingest", <<>>)) = Len(docs)
          /\ trace[n].op = "hydrate" /\ hasApi =>
                /\ \A i \in 1..Len(locations) :
                      Cardinality(Before(n, "find_location", locations[i].key)) = 1
                /\ \A i \in 1..Len(hazards) :
                      Cardinality(Before(n, "find_hazard", hazards[i].key)) = 1
          /\ trace[n].op = "hydrate" =>
                /\ Before(n, "hydrate", trace[n].key) = {}
                /\ trace[n].key \in KeysOf(locations)
          /\ trace[n].op = "assign" =>
                \A i \in 1..Len(locations) :
                    Cardinality(Before(n, "hydrate", locations[i].key)) = 1
    /\ Cardinality(Positions("assign")) <= 1
    /\ Cardinality(Positions("emit")) <= 1
    /\ pc \in {"assign", "emit", "done"} =>
          Cardinality(Positions("hydrate")) = Len(locations)
    /\ pc = "done" => Cardinality(Positions("assign")) = 1 /\ Cardinality(Positions("emit")) = 1

\* C5 witness: a finished run of two documents with a catalog, two locations
\* and two hazards, every stage in its trace.
C5_Witness ==
    /\ pc = "done"
    /\ hasApi
    /\ Len(docs) = 2
    /\ Len(locations) = 2
    /\ Len(hazards) = 2
    /\ {"ingest", "find_location", "http_location", "find_hazard", "hydrate", "assign", "emit"}
         \subseteq {trace[i].op : i \in 1..Len(trace)}

-----------------------------------------------------------------------------
(* C6 and C7 *)

\* the id Assign gives entry i of a map: the entry's place, counted from 1,
\* among the entries without an id in ascending order of key
NewId(entries, i, prefix) ==
    JStr(prefix \o Digits(1 + Cardinality({j \in 1..Len(entries) :
                                  IsNone(entries[j].id) /\ StrLess(entries[j].key, entries[i].key)})))

Assigned(before, after, prefix) ==
    /\ Len(after) = Len(before)
    /\ \A i \in 1..Len(before) :
          after[i].id = IF IsNone(before[i].id) THEN NewId(before, i, prefix) ELSE before[i].id

\* C6: the Assign step gives every location without an id the id
\* new-location-n, n its place among the locations without an id in ascending
\* order of normalized name, so that k such locations get the numbers 1..k;
\* hazards likewise with new-hazard-n and a count of their own; an entity
\* that has an id keeps it and takes no number.
C6_AssignNumbersInNameOrder ==
    [][pc = "assign" =>
          /\ Assigned(locations, locations', NEW_LOCATION_PREFIX)
          /\ Assigned(hazards, hazards', NEW_HAZARD_PREFIX)]_vars

Digit1 == <<49>>

Digit2 == <<50>>

\* C6 witness: after Assign, the first-inserted location carries the id 42 of
\* the catalog and the other one is new-location-1, while the two hazards,
\* inserted as h then g, are new-hazard-2 and new-hazard-1.
C6_Witness ==
    /\ pc = "emit"
    /\ Len(locations) = 2
    /\ StrLess(locations[1].key, locations[2].key)
    /\ locations[1].id = JStr(<<52, 50>>)
    /\ locations[2].id = JStr(NEW_LOCATION_PREFIX \o Digit1)
    /\ Len(hazards) = 2
    /\ StrLess(hazards[2].key, hazards[1].key)
    /\ hazards[1].id = JStr(NEW_HAZARD_PREFIX \o Digit2)
    /\ hazards[2].id = JStr(NEW_HAZARD_PREFIX \o Digit1)

\* the orders in which n documents can be given
Orders(n) == {p \in [1..n -> 1..n] : \A i, j \in 1..n : p[i] = p[j] => i = j}

\* a run of a fresh Transformer without collaborators, up to Assign
FreshRun(ds) ==
    LET st == IngestAll(EmptyMaps, ds) IN
    [raised |-> st.raised,
     locations |-> AssignIds(st.locations, NEW_LOCATION_PREFIX),
     hazards |-> AssignIds(st.hazards, NEW_HAZARD_PREFIX)]

IdsOf(entries) == {<<entries[i].key, entries[i].id>> : i \in 1..Len(entries)}

\* C7: with no catalog, when a run over some documents has finished, a second
\* run of a fresh Transformer over the same documents in the same or any
\* other order gives every normalized name, location or hazard, the same id.
C7_SameIdsInAnyOrder ==
    pc = "done" =>
        \A p \in Orders(Len(docs)) :
            \A run \in {FreshRun([i \in 1..Len(docs) |-> docs[p[i]]])} :
                ~run.raised =>
                    /\ IdsOf(run.locations) = IdsOf(locations)
                    /\ IdsOf(run.hazards) = IdsOf(hazards)

\* C7 witness: a finished run of two documents with two locations and two
\* hazards that the reverse order of the documents inserts the other way
\* round.
C7_Witness ==
    /\ pc = "done"
    /\ Len(docs) = 2
    /\ Len(locations) = 2
    /\ Len(hazards) = 2
    /\ \E run \in {FreshRun(<<docs[2], docs[1]>>)} :
          /\ ~run.raised
          /\ run.locations[1].key = locations[2].key
          /\ run.hazards[1].key = hazards[2].key

-----------------------------------------------------------------------------
(* C8 and C9 *)

\* an entry that is no object or has no non-blank str as its name
Malformed(r) == ~r.obj \/ ~NonBlank(Get(r.name))

AllMalformed(entries) == \A i \in 1..Len(entries) : Malformed(entries[i])

\* C8: the ingest of a document that is an object never raises, and when
\* every location entry and every hazard entry of the document is no object
\* or has an absent, null, non-string or blank name, it leaves both maps as
\* they were.
C8_IngestNeverRaises ==
    [][pc = "ingest" /\ docs[idx].obj =>
          /\ pc' # "raised"
          /\ AllMalformed(docs[idx].locations) /\ AllMalformed(docs[idx].hazards) =>
                locations' = locations /\ hazards' = hazards]_vars

NamesOf(entries) == {entries[i].name : i \in 1..Len(entries)}

\* C9: when a run has stopped, whether or not the ingest of some document
\* raised, it has returned a payload, and the payload has the entities of
\* every document whose own ingest does not raise.
C9_ErrorsAreConfined ==
    pc \in {"raised", "done"} =>
        /\ output # <<>>
        /\ \A n \in 1..Len(docs) :
              \A st \in {IngestAll(EmptyMaps, <<docs[n]>>)} :
                  ~st.raised =>
                      /\ NamesOf(st.locations) \subseteq NamesOf(output[1].locations)
                      /\ NamesOf(st.hazards) \subseteq NamesOf(output[1].hazards)

-----------------------------------------------------------------------------
(* C10 *)

KeepsLocationAttributes(before, after) ==
    /\ Truthy(before.type) => after.type = before.type
    /\ ~IsNone(before.latitude) => after.latitude = before.latitude
    /\ ~IsNone(before.longitude) => after.longitude = before.longitude
    /\ Truthy(before.description) => after.description = before.description
    /\ Truthy(before.image) => after.image = before.image
    /\ Truthy(before.google_maps_id) => after.google_maps_id = before.google_maps_id
    /\ before.boundary # <<>> => after.boundary = before.boundary

KeepsHazardAttributes(before, after) ==
    /\ Truthy(before.severity) => after.severity = before.severity
    /\ Truthy(before.type) => after.type = before.type
    /\ Truthy(before.description) => after.description = before.description

\* C10: no step of a run, be it the ingest of a document, a catalog lookup
\* with its merge, a hydrate call, Assign or Emit, changes an attribute of a
\* location (type, latitude, longitude, description, image, google_maps_id,
\* boundary) or of a hazard (severity, type, description) that is non-empty
\* before the step; every entity stays in its map.
C10_FilledAttributesStay ==
    [][/\ \A i \in 1..Len(locations) :
             /\ i <= Len(locations')
             /\ locations'[i].key = locations[i].key
             /\ KeepsLocationAttributes(locations[i], locations'[i])
       /\ \A i \in 1..Len(hazards) :
             /\ i <= Len(hazards')
             /\ hazards'[i].key = hazards[i].key
             /\ KeepsHazardAttributes(hazards[i], hazards'[i])]_vars

\* C10 witness: a finished run in which the catalog matched a location that
\* had its description from a document (id 42, description not the
\* catalog's), the catalog matched a hazard that had severity high (id 7,
\* severity still high, type filled in as event), and the enrichment service
\* gave longitude 9 to a location that kept its latitude 0.
C10_Witness ==
    /\ pc = "done"
    /\ \E i \in 1..Len(locations) :
          /\ locations[i].id = JStr(<<52, 50>>)
          /\ Truthy(locations[i].description)
          /\ locations[i].description # CatalogLocationA.description
    /\ \E i \in 1..Len(locations) :
          /\ locations[i].latitude = JNum(0)
          /\ locations[i].longitude = PlaceA.lng
    /\ \E i \in 1..Len(hazards) :
          /\ hazards[i].id = JStr(<<55>>)
          /\ hazards[i].severity = JStr(STR_HIGH)
          /\ hazards[i].type = JStr(STR_EVENT)

-----------------------------------------------------------------------------
(* C11 *)

\* what the lookup of this key returned
MatchOf(cache, key) == cache[IndexOfKey(cache, key)].match

\* a text attribute that was unset takes the trimmed text of the catalog
TakesText(before, after, value) ==
    ~Truthy(before) /\ NonBlank(Get(value)) => after = JStr(Strip(value[2]))

\* the location after the lookup has every attribute that was unset from the
\* catalog entry
FilledFromCatalog(before, after, entry) ==
    /\ ~Truthy(before.type) => after.type = normalize_location_type(Get(entry.type))
    /\ IsNone(before.latitude) => after.latitude = to_float(Get(entry.latitude))
    /\ IsNone(before.longitude) => after.longitude = to_float(Get(entry.longitude))
    /\ TakesText(before.description, after.description, entry.description)
    /\ TakesText(before.image, after.image, entry.image)
    /\ TakesText(before.google_maps_id, after.google_maps_id, entry.google_maps_id)
    /\ before.boundary = <<>> => after.boundary = normalize_boundary(Get(entry.boundary))

HazardFilledFromCatalog(before, after, entry) ==
    /\ ~Truthy(before.severity) =>
          after.severity = normalize_hazard_choice(Get(entry.severity), HAZARD_SEVERITIES)
    /\ ~Truthy(before.type) =>
          after.type = normalize_hazard_choice(Get(entry.type), HAZARD_TYPES)
    /\ TakesText(before.description, after.description, entry.description)

EmitsIds(entries, emitted) ==
    /\ Len(emitted) = Len(entries)
    /\ \A i \in 1..Len(entries) :
          \E j \in 1..Len(emitted) :
              emitted[j].name = entries[i].name /\ emitted[j].id = entries[i].id

\* C11: the lookup step of an entity that finds a match sets its id to the
\* string form of the catalog id and fills every attribute the documents left
\* unset with the catalog's value; the step of an entity without a match
\* leaves the entity as it was, id unset; an id that is set is changed by no
\* later step, an id that is unset stays unset until Assign, and Emit writes
\* every entity with the id it has.
C11_CatalogMatchGivesIdAndFillsGaps ==
    [][/\ pc = "attach_locations" =>
             IF MatchOf(locCache', locations[idx].key) = <<>>
             THEN locations'[idx] = locations[idx] /\ IsNone(locations'[idx].id)
             ELSE /\ locations'[idx].id = PyStr(MatchOf(locCache', locations[idx].key)[1].id)
                  /\ FilledFromCatalog(locations[idx], locations'[idx],
                                       MatchOf(locCache', locations[idx].key)[1])
       /\ pc = "attach_hazards" =>
             IF MatchOf(hazCache', hazards[idx].key) = <<>>
             THEN hazards'[idx] = hazards[idx] /\ IsNone(hazards'[idx].id)
             ELSE /\ hazards'[idx].id = PyStr(MatchOf(hazCache', hazards[idx].key)[1].id)
                  /\ HazardFilledFromCatalog(hazards[idx], hazards'[idx],
                                             MatchOf(hazCache', hazards[idx].key)[1])
       /\ \A i \in 1..Len(locations) :
             /\ ~IsNone(locations[i].id) => locations'[i].id = locations[i].id
             /\ IsNone(locations[i].id) /\ ~(pc = "attach_locations" /\ i = idx) /\ pc # "assign"
                   => IsNone(locations'[i].id)
       /\ \A i \in 1..Len(hazards) :
             /\ ~IsNone(hazards[i].id) => hazards'[i].id = hazards[i].id
             /\ IsNone(hazards[i].id) /\ ~(pc = "attach_hazards" /\ i = idx) /\ pc # "assign"
                   => IsNone(hazards'[i].id)
       /\ pc = "emit" =>
             /\ EmitsIds(locations, output'[1].locations)
             /\ EmitsIds(hazards, output'[1].hazards)]_vars

\* C11 witness: a payload with a location of id 42 whose latitude 5 only the
\* catalog had, a hazard of id 7 whose description only the catalog had, and
\* a location without a match under a synthetic id.
C11_Witness ==
    /\ pc = "done"
    /\ \E j \in 1..Len(output[1].locations) :
          /\ output[1].locations[j].id = JStr(<<52, 50>>)
          /\ output[1].locations[j].latitude = CatalogLocationA.latitude
    /\ \E j \in 1..Len(output[1].hazards) :
          /\ output[1].hazards[j].id = JStr(<<55>>)
          /\ output[1].hazards[j].description = CatalogHazardH.description
    /\ \E i \in 1..Len(locations) :
          /\ MatchOf(locCache, locations[i].key) = <<>>
          /\ locations[i].id = JStr(NEW_LOCATION_PREFIX \o Digit1)

-----------------------------------------------------------------------------
(* C12 *)

FailedLookups == {n \in 1..Len(trace) : trace[n].op = "lookup_failed"}

\* the step ends with the failure of the request it made
LookupFails == Len(trace') > Len(trace) /\ trace'[Len(trace')].op = "lookup_failed"

\* a position of the run after Ingest from which transform_documents goes on:
\* an iteration of one of its loops, Assign, Emit, or the return
GoesOn ==
    \/ pc = "attach_locations" /\ hasApi /\ idx \in 1..Len(locations)
    \/ pc = "attach_hazards" /\ hasApi /\ idx \in 1..Len(hazards)
    \/ pc = "hydrate" /\ idx \in 1..Len(locations)
    \/ pc \in {"assign", "emit"}
    \/ pc = "done" /\ output # <<>>

\* C12: a lookup step whose request fails leaves its entity as it was, without
\* an id, records no match for it and moves to the next lookup, or to the
\* next stage after the last one; after a failed lookup the run is always at
\* a position from which it goes on, never aborted; and when it has finished,
\* every location and every hazard has had its lookup and the payload is
\* returned.
C12_LookupFailuresDoNotAbort ==
    /\ [][LookupFails =>
             /\ pc \in {"attach_locations", "attach_hazards"}
             /\ pc = "attach_locations" =>
                   /\ locations' = locations
                   /\ IsNone(locations[idx].id)
                   /\ MatchOf(locCache', locations[idx].key) = <<>>
             /\ pc = "attach_hazards" =>
                   /\ hazards' = hazards
                   /\ IsNone(hazards[idx].id)
                   /\ MatchOf(hazCache', hazards[idx].key) = <<>>
             /\ pc' = IF idx < Len(IF pc = "attach_locations" THEN locations ELSE hazards)
                      THEN pc
                      ELSE IF pc = "attach_locations" /\ hazards # <<>> THEN "attach_hazards"
                      ELSE "hydrate"
             /\ idx' = IF pc' = pc THEN idx + 1 ELSE 1]_vars
    /\ [](FailedLookups # {} => GoesOn)
    /\ [](pc = "done" /\ FailedLookups # {} =>
             /\ \A i \in 1..Len(locations) :
                   \E n \in 1..Len(trace) : trace[n] = Event("find_location", locations[i].key)
             /\ \A i \in 1..Len(hazards) :
                   \E n \in 1..Len(trace) : trace[n] = Event("find_hazard", hazards[i].key))

\* C12 witness: a finished run in which the lookup of every one of two
\* locations and two hazards failed.
C12_Witness ==
    /\ pc = "done"
    /\ Len(locations) = 2
    /\ Len(hazards) = 2
    /\ Cardinality(FailedLookups) = 4
    /\ output # <<>>

-----------------------------------------------------------------------------
(* C13 *)

\* the payload of a fresh Transformer without collaborators on these documents
FreshPayload(ds) ==
    LET run == FreshRun(ds) IN _build_output(run.locations, run.hazards)

\* C13: a second call of transform_documents on the same Transformer starts
\* with empty entity maps and empty caches, and, without collaborators, its
\* payload is the one a fresh Transformer gives for the documents of the
\* second call.
C13_SecondCallStartsAfresh ==
    /\ [][pc = "done" /\ pc' # "done" =>
             locations' = <<>> /\ hazards' = <<>> /\ locCache' = <<>> /\ hazCache' = <<>>]_vars
    /\ [](Called /\ pc = "done" /\ ~hasApi => output[1] = FreshPayload(docs))

-----------------------------------------------------------------------------
(* C14 *)

\* whether some candidate of a places() answer scores at least the threshold
\* against the name
ReachesThreshold(places, name) ==
    /\ places[1] = "data"
    /\ \E i \in 1..Len(places[2]) :
          ~FracLess(score_name(PlaceName(places[2][i]), name), FUZZY_MATCH_THRESHOLD)

\* what hydrate may make of a location if it takes data only from the
\* highest-scoring candidate of an answer in which that candidate reaches the
\* threshold
HydratedByBestMatch(location) ==
    {location} \cup
    {HydrateFrom(location, BestPlace(places[2], location.name), geocode) :
        places \in {p \in PlacesOutcomes : ReachesThreshold(p, location.name)},
        geocode \in GeocodeOutcomes \cup {NoCall}}

\* C14: a hydrate step changes a location only with the data of the
\* highest-scoring returned candidate and only if that candidate scores at
\* least 0.6 against the location name; otherwise the location is unchanged.
C14_HydrateOnlyFromBestMatch ==
    [][pc = "hydrate" => locations'[idx] \in HydratedByBestMatch(locations[idx])]_vars

-----------------------------------------------------------------------------
(* C15 *)

\* no item of the sequence of str is followed by a smaller one
Ascending(keys) ==
    \A i \in 1..Len(keys) : \A j \in (i + 1)..Len(keys) : ~StrLess(keys[j], keys[i])

NamesFolded(items) == [i \in 1..Len(items) |-> LowerStr(items[i].name)]

HazardNamesUnder(location) ==
    [i \in 1..Len(location.presentations) |-> location.presentations[i].hazard_name]

\* C15: in the emitted payload the locations and the hazards are each in
\* ascending order of lower-cased name, and the presentations of every
\* location are in ascending order of hazard name.
C15_OutputIsOrdered ==
    \A n \in 1..Len(output) :
        /\ Ascending(NamesFolded(output[n].locations))
        /\ Ascending(NamesFolded(output[n].hazards))
        /\ \A i \in 1..Len(output[n].locations) :
              Ascending(HazardNamesUnder(output[n].locations[i]))

\* C15 witness: a payload whose locations "a", "B" were inserted as B, a,
\* whose hazards "B", "g", "H" were inserted as H, g, B, and whose location
\* "a" lists them as B, H, g, the order of the names as written.
C15_Witness ==
    /\ output # <<>>
    /\ [i \in 1..Len(locations) |-> locations[i].name] = <<S_B, <<97>>>>
    /\ [i \in 1..Len(hazards) |-> hazards[i].name] = <<S_H, S_g, S_B>>
    /\ [i \in 1..Len(output[1].locations) |-> output[1].locations[i].name] = <<<<97>>, S_B>>
    /\ [i \in 1..Len(output[1].hazards) |-> output[1].hazards[i].name] = <<S_B, S_g, S_H>>
    /\ HazardNamesUnder(output[1].locations[1]) = <<S_B, S_H, S_g>>

-----------------------------------------------------------------------------
(* C16 *)

\* C16: the type of every emitted location is absent, 'National Park' or
\* 'Region'.
C16_EmittedTypeIsCanonical ==
    \A n \in 1..Len(output) : \A i \in 1..Len(output[n].locations) :
        output[n].locations[i].type \in {Absent, JStr(STR_NATIONAL_PARK), JStr(STR_REGION)}

-----------------------------------------------------------------------------
(* C17 *)

\* the keys of the hazards that some presentation fragment of the documents
\* links to the location of this key
LinkedAmong(links, location_key) ==
    {Folded(links[k].hazard[2]) :
        k \in {j \in 1..Len(links) : Folded(links[j].fragment.location[2]) = location_key}}

LinkedHazards(ds, location_key) == LinkedAmong(LinksIn(ds), location_key)

\* the entries of the emitted hazards array an emitted presentation refers to
HazardsMatching(p, emitted) ==
    {j \in 1..Len(emitted) :
        /\ emitted[j].id = p.hazard_id
        /\ emitted[j].name = p.hazard_name
        /\ emitted[j].severity = p.hazard_severity
        /\ emitted[j].type = p.hazard_type}

\* C17: in the emitted payload the presentations of a location are, one
\* each, those of the hazards that some ingested presentation fragment links
\* to the location, and the hazard_id (never null), hazard_name,
\* hazard_severity and hazard_type of each are the id, name, severity and
\* type of exactly one entry of the emitted hazards array.
C17_PresentationsAreTheLinks ==
    pc = "done" =>
        \A l \in 1..Len(output[1].locations) :
            LET location == output[1].locations[l]
                ps == location.presentations
            IN  /\ {Folded(ps[i].hazard_name) : i \in 1..Len(ps)}
                      = LinkedHazards(docs, Folded(location.name))
                /\ Len(ps) = Cardinality(LinkedHazards(docs, Folded(location.name)))
                /\ \A i \in 1..Len(ps) :
                      /\ IsStr(ps[i].hazard_id)
                      /\ Cardinality(HazardsMatching(ps[i], output[1].hazards)) = 1

\* C17 witness: a payload of two locations, each with the one presentation
\* of hazard H that the documents link to it, carrying the catalog's id 7 and
\* the documents' severity, while hazard G, linked to no location, is in the
\* hazards array only.
C17_Witness ==
    /\ pc = "done"
    /\ Len(output[1].locations) = 2
    /\ Len(output[1].hazards) = 2
    /\ \A l \in 1..2 :
          /\ Len(output[1].locations[l].presentations) = 1
          /\ output[1].locations[l].presentations[1].hazard_id = JStr(<<55>>)
          /\ output[1].locations[l].presentations[1].hazard_severity = JStr(STR_HIGH)
    /\ LinkedHazards(docs, <<97>>) = {<<104>>}
    /\ LinkedHazards(docs, <<98>>) = {<<104>>}

-----------------------------------------------------------------------------
(* C18 *)

\* an emitted boundary: not there, or at least 3 points of which the last is
\* the first
ClosedRingIfAny(boundary) ==
    \/ boundary = Absent
    \/ /\ IsList(boundary)
       /\ Len(boundary[2]) >= 3
       /\ boundary[2][Len(boundary[2])] = boundary[2][1]

\* C18: every boundary of the emitted payload, of a location or of a
\* presentation, is a closed ring of at least 3 points.
C18_EmittedBoundariesAreClosed ==
    \A n \in 1..Len(output) : \A l \in 1..Len(output[n].locations) :
        /\ ClosedRingIfAny(output[n].locations[l].boundary)
        /\ \A p \in 1..Len(output[n].locations[l].presentations) :
              ClosedRingIfAny(output[n].locations[l].presentations[p].boundary)

\* C18 witness: a payload with a location boundary taken from the catalog (a
\* triangle, closed with a fourth point), a location boundary made from the
\* bounds of a geocode result (five points) and a presentation boundary taken
\* from a document.
C18_Witness ==
    /\ output # <<>>
    /\ \E a, b \in 1..Len(output[1].locations) :
          /\ IsList(output[1].locations[a].boundary)
          /\ Len(output[1].locations[a].boundary[2]) = 4
          /\ output[1].locations[a].boundary[2][1] = [latitude |-> 4, longitude |-> 4]
          /\ IsList(output[1].locations[b].boundary)
          /\ Len(output[1].locations[b].boundary[2]) = 5
          /\ output[1].locations[b].presentations # <<>>
          /\ IsList(output[1].locations[b].presentations[1].boundary)
          /\ output[1].locations[b].presentations[1].boundary[2][1]
                = [latitude |-> 1, longitude |-> 1]

-----------------------------------------------------------------------------
(* C19 *)

\* a list of at least 3 [lat, lng] pairs of numbers
PairRing(v) ==
    /\ IsList(v)
    /\ Len(v[2]) >= 3
    /\ \A i \in 1..Len(v[2]) :
          /\ IsList(v[2][i])
          /\ Len(v[2][i][2]) = 2
          /\ IsNum(v[2][i][2][1])
          /\ IsNum(v[2][i][2][2])

\* the same polygon as a list of latitude/longitude objects
AsObjects(v) == JList([i \in 1..Len(v[2]) |-> JPoint(v[2][i][2][1], v[2][i][2][2])])

\* the polygon of pairs a raw boundary gives flat, or as the first ring of a
\* GeoJSON Polygon
PairRingsOf(raw) ==
    {r \in {raw} \cup (IF raw[1] = "geo" /\ raw[2] = "Polygon" /\ IsList(raw[3])
                          /\ raw[3][2] # <<>>
                       THEN {raw[3][2][1]} ELSE {}) : PairRing(r)}

\* C19: transformer.normalize_boundary records a polygon of at least 3 points
\* given as a flat list of [lat, lng] pairs, or as the first ring of a
\* GeoJSON Polygon, as the non-empty boundary it records for the same points
\* given as latitude/longitude objects.
C19_PairsAreReadLikeObjects ==
    \A n \in 1..Len(recorded) : \A r \in PairRingsOf(raw_boundary) :
        /\ normalize_boundary(AsObjects(r)) # <<>>
        /\ recorded[n] = Ok(normalize_boundary(AsObjects(r)))

-----------------------------------------------------------------------------
(* C20 *)

\* a list of fewer than 3 points, each a pair or an object of numbers
ShortRing(v) ==
    /\ IsList(v)
    /\ Len(v[2]) < 3
    /\ \A i \in 1..Len(v[2]) : _coerce_point(v[2][i])[1] = "ok"

\* the input is an empty list, a polygon of fewer than 3 points in one of
\* the encodings (flat, list of polygons, Polygon, MultiPolygon), or a dict
\* that is no Polygon / MultiPolygon with coordinates
InvalidBoundary(raw) ==
    \/ raw = JList(<<>>)
    \/ \E r \in {v \in Rings : ShortRing(v)} :
          \/ raw = r
          \/ raw = JList(<<r>>)
          \/ raw = JGeo("Polygon", JList(<<r>>))
          \/ raw = JGeo("MultiPolygon", JList(<<JList(<<r>>)>>))
    \/ /\ IsDict(raw)
       /\ ~(raw[1] = "geo" /\ raw[2] \in {"Polygon", "MultiPolygon"} /\ raw[3] # Absent)

\* C20: on an invalid boundary geometry.normalize_boundary raises ValueError:
\* it neither returns nor raises anything else.
C20_InvalidBoundaryIsValueError ==
    \A n \in 1..Len(polygons) :
        InvalidBoundary(raw_boundary) => polygons[n] = Raise("ValueError")

-----------------------------------------------------------------------------
(* C21 *)

\* a list of at least 3 points, each a pair or an object of numbers
Polygon3(v) ==
    /\ IsList(v)
    /\ Len(v[2]) >= 3
    /\ \A i \in 1..Len(v[2]) : _coerce_point(v[2][i])[1] = "ok"

\* the numbers of a point given as a pair or as an object
PointAsGiven(p) ==
    IF IsList(p) THEN [latitude |-> p[2][1][2], longitude |-> p[2][2][2]]
    ELSE [latitude |-> p[2][2], longitude |-> p[3][2]]

\* the boundary set of the one polygon with the points of the ring, in order
OnePolygon(v) == Ok(<<[i \in 1..Len(v[2]) |-> PointAsGiven(v[2][i])]>>)

\* the list of points a raw boundary gives as one polygon: flat, as the only
\* item of a list, or as the first ring of a GeoJSON Polygon
PolygonGiven(raw) ==
    IF IsList(raw) /\ Len(raw[2]) = 1 /\ IsList(raw[2][1]) THEN raw[2][1]
    ELSE IF IsList(raw) THEN raw
    ELSE IF raw[1] = "geo" /\ raw[2] = "Polygon" /\ IsList(raw[3]) /\ raw[3][2] # <<>>
    THEN raw[3][2][1]
    ELSE None

\* C21: for a polygon of at least 3 points, geometry.normalize_boundary
\* returns the boundary set of that one polygon, with its points in order,
\* whether the polygon is given flat, as the only item of a list, or as the
\* first ring of a GeoJSON Polygon, of one ring or of several.
C21_EncodingsGiveTheSamePolygon ==
    \A n \in 1..Len(polygons) :
        Polygon3(PolygonGiven(raw_boundary)) =>
            polygons[n] = OnePolygon(PolygonGiven(raw_boundary))

\* C21 witness: a GeoJSON Polygon of two rings, the first of pairs and
\* objects mixed, normalized to the one polygon of its first ring.
C21_Witness ==
    /\ polygons = <<Ok(<<<<[latitude |-> 1, longitude |-> 1], [latitude |-> 2, longitude |-> 1],
                         [latitude |-> 3, longitude |-> 2]>>>>)>>
    /\ raw_boundary[1] = "geo"
    /\ raw_boundary[2] = "Polygon"
    /\ Len(raw_boundary[3][2]) = 2
    /\ raw_boundary[3][2][1][2][1][1] = "list"
    /\ raw_boundary[3][2][1][2][2][1] = "point"

-----------------------------------------------------------------------------
(* C30 *)

\* a list of at least 3 latitude/longitude objects of numbers
ObjectPolygon(v) ==
    /\ IsList(v)
    /\ Len(v[2]) >= 3
    /\ \A i \in 1..Len(v[2]) :
          v[2][i][1] = "point" /\ IsNum(v[2][i][2]) /\ IsNum(v[2][i][3])

\* the points with the first repeated at the end, unless it already is
Closed(ps) == IF ps[1] = ps[Len(ps)] THEN ps ELSE Append(ps, ps[1])

\* C30: transformer.normalize_boundary returns a polygon of at least 3
\* latitude/longitude objects of numbers with all of its points in input
\* order and the closing point, also when a coordinate is 0.
C30_ZeroCoordinatesAreKept ==
    \A n \in 1..Len(recorded) :
        ObjectPolygon(raw_boundary) =>
            recorded[n] = Ok(Closed([i \in 1..Len(raw_boundary[2]) |->
                                        PointAsGiven(raw_boundary[2][i])]))

-----------------------------------------------------------------------------
(* C27 *)

\* the requests of one kind in the trace are for pairwise different names
OneRequestPerName(op) ==
    \A i, j \in 1..Len(trace) :
        (i < j /\ trace[i].op = op /\ trace[j].op = op) => trace[i].key # trace[j].key

\* the position in a cache of a name equal to this one up to case and
\* surrounding whitespace, 0 if there is none
Remembered(cache, name) ==
    IF \E n \in 1..Len(cache) : cache[n].key = LowerStr(Strip(name))
    THEN CHOOSE n \in 1..Len(cache) : cache[n].key = LowerStr(Strip(name))
    ELSE 0

\* the events a call adds to the trace
Added(old, new) == SubSeq(new, Len(old) + 1, Len(new))

\* a call with a name that is in the cache issues no request, leaves the
\* cache alone and returns what the cache holds; a call with a name that is
\* not issues one request and remembers what it returns, no match if the
\* request failed
AnswersFromCache(op, cache, cacheAfter, name, events, result) ==
    IF Remembered(cache, name) # 0
    THEN /\ cacheAfter = cache
         /\ Len(events) = 1
         /\ result = cache[Remembered(cache, name)].match
    ELSE /\ cacheAfter = Append(cache, [key |-> LowerStr(Strip(name)), match |-> result])
         /\ events[2] = Event(op, LowerStr(Strip(name)))
         /\ Len(events) = 3 => (events[3].op = "lookup_failed" /\ result = <<>>)

\* C27: on one catalog client at most one HTTP request is issued per
\* normalized name: a repeated find_location / find_hazard call with a name
\* equal up to case and surrounding whitespace returns the cached result of
\* the first call, and a name whose lookup failed is answered no match from
\* the cache without a retry.
C27_OneRequestPerNormalizedName ==
    /\ [](OneRequestPerName("http_location") /\ OneRequestPerName("http_hazard"))
    /\ [][IF Added(trace, trace')[1].op = "find_location"
          THEN AnswersFromCache("http_location", locCache, locCache', args'[1],
                                Added(trace, trace'), returned'[1])
          ELSE AnswersFromCache("http_hazard", hazCache, hazCache', args'[1],
                                Added(trace, trace'), returned'[1])]_vars

\* A was looked up and the request failed; then " a " was looked up, no
\* request was issued and no match was returned
C27_Witness ==
    /\ Len(trace) = 4
    /\ trace[1] = Event("find_location", S_A)
    /\ trace[2] = Event("http_location", <<97>>)
    /\ trace[3] = Event("lookup_failed", <<97>>)
    /\ trace[4] = Event("find_location", S_a_padded)
    /\ returned = <<<<>>>>

-----------------------------------------------------------------------------
(* C28 *)

\* the positions of the candidates that have a str name
Named28(candidates) == {i \in 1..Len(candidates) : IsStr(Get(candidates[i].name))}

Score28(candidates, i, name) == score_name(candidates[i].name[2], name)

\* position i holds a candidate of maximum score among the named ones, and
\* the earliest such
EarliestBest(candidates, i, name) ==
    /\ i \in Named28(candidates)
    /\ \A j \in Named28(candidates) :
          /\ ~FracLess(Score28(candidates, i, name), Score28(candidates, j, name))
          /\ j < i => FracLess(Score28(candidates, j, name), Score28(candidates, i, name))

\* C28: _choose_best_match returns a candidate if and only if some candidate
\* with a str name scores at least 0.6 against the name; the candidate
\* returned has the maximum score, the earliest in response order on a tie;
\* candidates without a str name are ignored.
C28_BestMatchIsEarliestMaximum ==
    \A n \in 1..Len(returned) :
        /\ returned[n] # <<>> <=>
              \E i \in Named28(args[2]) : ~FracLess(Score28(args[2], i, args[1]), <<3, 5>>)
        /\ returned[n] # <<>> =>
              \E i \in 1..Len(args[2]) :
                  EarliestBest(args[2], i, args[1]) /\ returned[n] = <<args[2][i]>>

\* 'a' is returned for 'A' from a response that holds a candidate without a
\* str name, then 'a', then 'A'
C28_Witness ==
    /\ args = <<S_A, <<Candidate(5, JNum(5)), Candidate(2, JStr(<<97>>)), Candidate(1, JStr(S_A))>>>>
    /\ returned = <<<<Candidate(2, JStr(<<97>>))>>>>

-----------------------------------------------------------------------------
(* C29 *)

\* every entity of the list has an id, and no two have the same
DistinctIds(entities) ==
    /\ \A i \in 1..Len(entities) : ~IsNone(entities[i].id)
    /\ \A i, j \in 1..Len(entities) : i # j => entities[i].id # entities[j].id

\* C29: in the payload emitted by a run on a fresh Transformer every location
\* and every hazard has a non-null id, the ids of the locations are pairwise
\* distinct and so are the ids of the hazards, whatever the catalog returned.
C29_EmittedIdsAreDistinct ==
    \A n \in 1..Len(output) :
        DistinctIds(output[n].locations) /\ DistinctIds(output[n].hazards)

-----------------------------------------------------------------------------
(* C22 *)

\* the scores of the candidates, by position
ScoresFor(candidates, query) ==
    [i \in 1..Len(candidates) |->
        IF candidates[i].name = <<>> THEN <<0, 1>> ELSE score_name(candidates[i].name, query)]

\* the positions of the pool: the candidates scoring at least 0.35 if there
\* are any, all candidates otherwise
PoolPositions(scores) ==
    IF \E i \in DOMAIN scores : ~FracLess(scores[i], <<7, 20>>)
    THEN {i \in DOMAIN scores : ~FracLess(scores[i], <<7, 20>>)}
    ELSE DOMAIN scores

\* position j comes before position i: by descending score, then ascending
\* name, then as given
ComesBefore(candidates, scores, j, i) ==
    \/ FracLess(scores[i], scores[j])
    \/ /\ ~FracLess(scores[j], scores[i])
       /\ \/ StrLess(candidates[j].name, candidates[i].name)
          \/ candidates[j].name = candidates[i].name /\ j < i

\* the number of positions of the pool that come before each position
RankOf(candidates, scores, pool) ==
    [i \in pool |-> Cardinality({j \in pool : ComesBefore(candidates, scores, j, i)})]

\* the result is the leading part of the pool in rank order
LeadingPool(candidates, scores, pool, ranks, limit, result) ==
    /\ Len(result) = Min2(limit, Cardinality(pool))
    /\ \A k \in 1..Len(result) :
          \E i \in pool : ranks[i] = k - 1 /\ result[k] = candidates[i]
    /\ Len(result) <= limit
    /\ candidates # <<>> => result # <<>>
    /\ \A i, j \in pool : ~FracLess(scores[i], <<7, 20>>) <=> ~FracLess(scores[j], <<7, 20>>)

RankedRight(candidates, scores, limit, result) ==
    LeadingPool(candidates, scores, PoolPositions(scores),
                RankOf(candidates, scores, PoolPositions(scores)), limit, result)

\* C22: for a limit >= 1 the ranking returns the first min(limit, |pool|)
\* entries of the pool in descending order of score and then ascending order
\* of name, the pool being the candidates scoring at least 0.35 if there are
\* any and all candidates otherwise; so the result has at most limit items,
\* is non-empty when there are candidates, and never mixes a candidate below
\* 0.35 with one at or above it.
C22_RankReturnsLeadingPool ==
    Len(returned) = 2 =>
        RankedRight(args.queryset, ScoresFor(args.queryset, args.q), returned[1][2], returned[2])

\* 'b' (second of the name), 'B' and 'abc' are ranked for 'ab' with limit 2:
\* 'abc' and then 'B' are returned
C22_Witness ==
    /\ args = [q |-> S_ab, limit |-> JStr(<<32, 50, 32>>),
               queryset |-> <<Candidate(7, S_b), Candidate(4, S_B), Candidate(2, S_abc)>>]
    /\ returned = <<Ok(2), <<Candidate(2, S_abc), Candidate(4, S_B)>>>>

-----------------------------------------------------------------------------
(* C23 *)

\* the limits requested as an integer in the model
RequestedInteger ==
    CASE args.limit = JStr(<<49>>) -> <<1>>
      [] args.limit = JStr(<<32, 50, 32>>) -> <<2>>
      [] args.limit = JStr(<<53, 49>>) -> <<51>>
      [] args.limit = JStr(<<48>>) -> <<0>>
      [] args.limit = JStr(<<45, 49>>) -> <<0 - 1>>
      [] OTHER -> <<>>

Clamped(n) == IF n < 1 THEN 1 ELSE IF n > 50 THEN 50 ELSE n

\* C23: the limit handed to the ranking is 10 when no limit is requested, and
\* a requested integer limit clamped into [1, 50]: a value above 50 becomes
\* 50 and a value below 1 becomes 1.
C23_LimitIsClamped ==
    \A n \in 1..Len(returned) :
        n = 1 =>
            /\ IsNone(args.limit) => returned[1] = Ok(10)
            /\ RequestedInteger # <<>> => returned[1] = Ok(Clamped(RequestedInteger[1]))

-----------------------------------------------------------------------------
(* C25 *)

\* what a raw value asks for: itself when it is exactly an enum value, its
\* comma-separated parts otherwise, blank ones left out
Meant(value) == IF value \in Speciality THEN <<value>> ELSE Parts(value)

RECURSIVE AllMeant(_)
AllMeant(raw_values) ==
    IF raw_values = <<>> THEN <<>>
    ELSE Meant(Head(raw_values)) \o AllMeant(Tail(raw_values))

\* the elements of a list once each, in the order they are first seen
RECURSIVE FirstSeen(_)
FirstSeen(seq) ==
    IF seq = <<>> THEN <<>>
    ELSE LET rest == FirstSeen(SubSeq(seq, 1, Len(seq) - 1)) IN
         IF InSeq(seq[Len(seq)], rest) THEN rest ELSE Append(rest, seq[Len(seq)])

\* C25: every raw value that is exactly a Speciality enum value ends up in
\* 'selected', once and in first-seen order, and adds nothing to 'invalid';
\* blank values are ignored and only parts that are no enum value are
\* reported invalid.
C25_ValidSpecialitiesAreAccepted ==
    \A n \in 1..Len(returned) :
        /\ returned[n].selected =
              FirstSeen(SelectSeq(AllMeant(args), LAMBDA part : part \in Speciality))
        /\ returned[n].invalid = SelectSeq(AllMeant(args), LAMBDA part : part \notin Speciality)

-----------------------------------------------------------------------------
(* C24 *)

\* the presentation contains the point: the point is within its circle or
\* inside a polygon of its normalized boundary; an invalid boundary has no
\* polygons
Holds(presentation, point) ==
    \/ point_within_circle(point, presentation.center, presentation.radius_meters)
    \/ /\ geometry_normalize_boundary(presentation.boundary)[1] = "ok"
       /\ point_within_boundary(geometry_normalize_boundary(presentation.boundary)[2], point)

\* the positions of the presentations of a hazard that contain the point
Containing(presentations, hazard_id, point) ==
    {n \in 1..Len(presentations) :
        presentations[n].hazard_id = hazard_id /\ Holds(presentations[n], point)}

AsSet(seq) == {seq[i] : i \in 1..Len(seq)}

\* the answer has an entry for exactly the hazards with a containing
\* presentation, and each entry embeds exactly those presentations
AnswersContainment(presentations, point, answer) ==
    /\ answer[1] = "ok"
    /\ \A h \in 1..Len(StoredHazards) :
          Containing(presentations, StoredHazards[h].id, point) # {} <=>
              \E k \in 1..Len(answer[2]) : answer[2][k].id = StoredHazards[h].id
    /\ \A k \in 1..Len(answer[2]) :
          AsSet(answer[2][k].presentations) = Containing(presentations, answer[2][k].id, point)

\* C24: the containment query for a point returns a hazard if and only if
\* at least one of its presentations contains the point (within its circle
\* or inside a polygon of its normalized boundary), each returned hazard
\* embeds only its containing presentations, and a presentation whose stored
\* boundary is invalid never makes the query fail: it is skipped and the
\* others are still evaluated.
C24_InvalidBoundaryIsSkipped ==
    \A n \in 1..Len(returned) :
        (IsNum(args.latitude) /\ IsNum(args.longitude)) =>
            AnswersContainment(args.presentations,
                               Point(args.latitude[2], args.longitude[2]), returned[n])

-----------------------------------------------------------------------------
(* C26 *)

\* an event of the trace that is an attempt to download the url
Attempt(n, url) == trace[n].key = url /\ trace[n].op \in {"skip", "get", "raised"}

\* a file is at the target path of a url only if a download of that url
\* completed
FilesAreDownloads ==
    \A url \in Urls :
        IsFile(files, build_document_path(url)) =>
            \E n \in 1..Len(trace) : trace[n] = Event("wrote", url)

\* a url that was downloaded is skipped afterwards, without a request
DownloadedIsSkipped ==
    \A url \in Urls : \A i, j \in 1..Len(trace) :
        (i < j /\ trace[i] = Event("wrote", url) /\ Attempt(j, url)) => trace[j].op = "skip"

\* a url whose download failed and has not succeeded since is requested again
FailedIsRequestedAgain ==
    \A url \in Urls : \A i, j \in 1..Len(trace) :
        (/\ i < j
         /\ trace[i] = Event("failed", url)
         /\ \A k \in i..j : trace[k] # Event("wrote", url)
         /\ Attempt(j, url)) => trace[j].op = "get"

\* the last call attempted every url it was given
AllAttempted ==
    \A n \in 1..Len(returned) : returned[n][1] = "ok" /\ Len(returned[n][2]) = Len(args)

\* C26: the downloader is re-runnable: a file exists at a url's target path
\* only if a download of that url completed; on a later run such a url is
\* skipped without a request and its file is unchanged; a url whose earlier
\* download failed is requested again; and a failure on one url never keeps
\* the remaining urls of download_many from being attempted.
C26_DownloaderIsRerunnable ==
    /\ [](FilesAreDownloads /\ DownloadedIsSkipped /\ FailedIsRequestedAgain /\ AllAttempted)
    /\ [][\A f \in files : ~f.dir => f \in files']_vars

====
